---------------------------- MODULE Spec2Model ----------------------------
(***************************************************************************)
(* A model of the MQTT broker of internal/server/server.go together with   *)
(* the packet codec of package mqtt.                                       *)
(*                                                                         *)
(* One connection handler (handleConnection) runs per accepted socket.     *)
(* Every packet it reads is handled by one action: the handlers take the   *)
(* broker locks (s.mu, client.mu, s.retainedMsgsMu) around the sections    *)
(* that read or write shared state, so each section is atomic.  The        *)
(* deliverMessage goroutines started by routeMessage and handleSubscribe   *)
(* are separate tasks: they run in any order after they were started.      *)
(*                                                                         *)
(* Strings (topics, filters, payloads) are sequences of one-character      *)
(* strings, so that splitTopic and topicMatch work on characters as the    *)
(* code does.                                                              *)
(***************************************************************************)
EXTENDS Integers, Sequences, FiniteSets, TLC

\* Bounds of the model.
NConn == 2
MaxPackets == 4

Conn == 1..NConn
ClientIDs == {"x", "y"}
NoConn == 0
NoClient == "-"

VARIABLES
    connState,      \* per socket: "new" (not accepted), "open", "closed"
    client,         \* handleConnection's local `client`: NoClient or the ID of its Client
    subs,           \* Client.Subscriptions of the Client made on socket c with ID id
    clients,        \* Server.clients: ID -> socket of the registered Client (NoConn: none)
    retainedMsgs,   \* Server.retainedMsgs: topic -> PublishPacket
    out,            \* per socket: the frames written to it, in order
    tasks,          \* deliverMessage goroutines started and not yet run
    crashed,        \* the process panicked
    nPackets,       \* packets read so far
    pubLog,         \* history: the PUBLISH packets decoded, with the registry then
    subLog,         \* history: the SUBSCRIBE packets decoded, with the retained store then
    failed,         \* history: deliverMessage tasks whose write returned an error
    evicted,        \* history: sockets whose registry entry another socket's CONNECT replaced
    early,          \* history: sockets that sent a packet other than CONNECT before CONNECT
    again,          \* history: sockets that sent a CONNECT after their CONNECT was accepted
    unsubLog,       \* history: the UNSUBSCRIBE packets decoded, with the subscriptions before and after
    keepAlive,      \* history: connectPkt.KeepAlive of the last CONNECT decoded on the socket
    late,           \* history: sockets accepted after a call of Stop had returned
    pingLog,        \* history: the PINGREQ packets read, with the broker state before and after
    malformed,      \* history: sockets that sent a packet whose body failed to decode
    nilRetained,    \* Server.retainedMsgs is the nil map (a Server built by New)
    running,        \* Server.running
    listener,       \* Server.listener: "none" (nil), "open", "closed"
    startPC,        \* where the call of Start is: "idle", "flagged", "accept", "returned", "failed"
    stopRet,        \* history: a call of Stop has returned
    blocked,        \* sockets whose peer stopped reading: a write to them does not return
    writing,        \* per socket: the deliverMessage whose conn.Write is in progress
    match,          \* a call of topicMatch: its arguments and, once made, its result
    codec,          \* a call of an encoder and of the decoder that reads its bytes
    queue,          \* the BboltStore: its messages bucket and the calls made on it
    race,           \* two handlers run statement by statement: positions, locks, state
    startLog        \* history: the calls of Start made after the first one, with their result

vars == <<connState, client, subs, clients, retainedMsgs, out, tasks,
          crashed, nPackets, pubLog, subLog, failed, evicted, early, again,
          unsubLog, keepAlive, late, pingLog, malformed, nilRetained, running,
          listener, startPC, stopRet, blocked, writing, match, codec, queue, race,
          startLog>>

\* What the broker's connections never touch: the codec calls, the store, the
\* statement-level run of two handlers and the later calls of Start.
aside == <<codec, queue, race, startLog>>

\* The variables that the packet handlers and deliverMessage leave alone.
rest == <<nilRetained, running, listener, startPC, stopRet, blocked, writing, match, aside>>

-----------------------------------------------------------------------------
(* Strings *)

\* splitTopic's loop: i is the scan position, start the first character of
\* the current level (both 1-based).
RECURSIVE splitLoop(_, _, _, _)
splitLoop(topic, i, start, levels) ==
    IF i > Len(topic)
    THEN IF start <= Len(topic)
         THEN Append(levels, SubSeq(topic, start, Len(topic)))
         ELSE levels
    ELSE IF topic[i] = "/"
         THEN splitLoop(topic, i + 1, i + 1, Append(levels, SubSeq(topic, start, i - 1)))
         ELSE splitLoop(topic, i + 1, start, levels)

splitTopic(topic) ==
    IF topic = <<>> THEN <<>> ELSE splitLoop(topic, 1, 1, <<>>)

\* topicMatch's level-by-level loop (si, pi 1-based).
RECURSIVE matchLoop(_, _, _, _)
matchLoop(subLevels, pubLevels, si, pi) ==
    IF si <= Len(subLevels) /\ pi <= Len(pubLevels)
    THEN IF subLevels[si] = <<"#">> THEN TRUE
         ELSE IF subLevels[si] = <<"+">> THEN matchLoop(subLevels, pubLevels, si + 1, pi + 1)
         ELSE IF subLevels[si] = pubLevels[pi] THEN matchLoop(subLevels, pubLevels, si + 1, pi + 1)
         ELSE FALSE
    ELSE IF si <= Len(subLevels) /\ subLevels[si] = <<"#">> THEN TRUE
         ELSE si = Len(subLevels) + 1 /\ pi = Len(pubLevels) + 1

topicMatch(subTopic, pubTopic) ==
    IF subTopic = pubTopic THEN TRUE
    ELSE matchLoop(splitTopic(subTopic), splitTopic(pubTopic), 1, 1)


-----------------------------------------------------------------------------
(* Maps (Go maps: a function whose domain is the set of keys) *)

EmptyMap == [k \in {} |-> 0]
MapPut(m, k, v) == [j \in DOMAIN m \cup {k} |-> IF j = k THEN v ELSE m[j]]
MapDelete(m, k) == [j \in DOMAIN m \ {k} |-> m[j]]

Min(a, b) == IF a < b THEN a ELSE b

-----------------------------------------------------------------------------
(* Frames written to a socket.  `idx`, `via` and `to` are history fields:  *)
(* the PUBLISH or SUBSCRIBE a frame answers or carries, what started the   *)
(* delivery (0: routeMessage, j > 0: the j-th SUBSCRIBE) and the ID of the *)
(* Client it was written for.  `part` is 0 for a frame that reached the    *)
(* socket whole, 1 and 2 for the two parts of a frame whose conn.Write put *)
(* its bytes on the socket in two steps.                                   *)

NoFrame ==
    [type |-> "NONE", SessionPresent |-> FALSE, ReturnCode |-> 0, PacketID |-> 0,
     Topic |-> <<>>, Payload |-> <<>>, QoS |-> 0, Retain |-> FALSE, Dup |-> FALSE,
     ReturnCodes |-> <<>>, idx |-> 0, via |-> 0, to |-> NoClient, part |-> 0]

\* ConnackPacket.Encode as handleConnect fills it.
ConnackFrame == [NoFrame EXCEPT !.type = "CONNACK"]

\* PubackPacket.Encode
PubackFrame(pub) == [NoFrame EXCEPT !.type = "PUBACK", !.PacketID = pub.PacketID, !.idx = pub.idx]

\* SubackPacket.Encode
SubackFrame(packetID, returnCodes, j) ==
    [NoFrame EXCEPT !.type = "SUBACK", !.PacketID = packetID,
                    !.ReturnCodes = returnCodes, !.idx = j]

\* UnsubackPacket.Encode
UnsubackFrame(packetID) == [NoFrame EXCEPT !.type = "UNSUBACK", !.PacketID = packetID]

\* PingrespPacket.Encode
PingrespFrame == [NoFrame EXCEPT !.type = "PINGRESP"]

\* conn.Write by the handler of socket c, which is open while its handler runs.
Write(o, c, frames) == [o EXCEPT ![c] = o[c] \o frames]

-----------------------------------------------------------------------------
(* PUBLISH *)

\* DecodePublishPacket: the flags come from the fixed header, the packet ID
\* is read only at QoS > 0.  idx is the identity of the decoded packet.
DecodePublishPacket(wire, idx) ==
    [Dup |-> wire.Dup, QoS |-> wire.QoS, Retain |-> wire.Retain, Topic |-> wire.Topic,
     PacketID |-> IF wire.QoS > 0 THEN wire.PacketID ELSE 0,
     Payload |-> wire.Payload, idx |-> idx]

\* (mutant) the retained store without the empty-payload delete
RetainedAfterNoDelete(store, pub) ==
    IF pub.Retain THEN MapPut(store, pub.Topic, pub) ELSE store

\* handlePublish, "Handle retained messages".
RetainedAfter(store, pub) ==
    IF pub.Retain
    THEN IF Len(pub.Payload) = 0
         THEN MapDelete(store, pub.Topic)
         ELSE MapPut(store, pub.Topic, pub)
    ELSE store

\* handlePublish, "Store retained message" in a Server built by New: an
\* assignment to an entry of the nil map panics (delete and range do not).
StorePanics(pub) == nilRetained /\ pub.Retain /\ Len(pub.Payload) # 0

\* (mutant) a PUBACK for every PUBLISH, whatever its QoS
PubackFramesAnyQoS(pub) == <<PubackFrame(pub)>>

\* handlePublish, "Send PUBACK for QoS 1": the frames written to the publisher.
PubackFrames(pub) ==
    IF pub.QoS = 1 THEN <<PubackFrame(pub)>> ELSE <<>>

\* The filters of the Client registered under id that match topic.
MatchingFilters(id, topic) ==
    {f \in DOMAIN subs[clients[id], id] : topicMatch(f, topic)}

Registered == {id \in ClientIDs : clients[id] # NoConn}

\* A deliverMessage goroutine: the Client (socket and ID), the packet, subQoS.
Task(c, id, pub, f, subQoS, via) ==
    [conn |-> c, to |-> id, pub |-> pub, flt |-> f, subQoS |-> subQoS, via |-> via]

\* (mutant) routeMessage without the `break`: one goroutine per matching filter
RouteTasksNoBreak(pub, pick) ==
    UNION {{Task(clients[id], id, pub, f, subs[clients[id], id][f], 0) :
              f \in MatchingFilters(id, pub.Topic)} : id \in DOMAIN pick}

\* routeMessage: for each registered Client the first filter that matches,
\* in the iteration order of the Subscriptions map, starts one goroutine.
\* Go leaves that order open: pick[id] is the filter the iteration meets first.
RouteTasks(pub, pick) ==
    {Task(clients[id], id, pub, pick[id], subs[clients[id], id][pick[id]], 0) : id \in DOMAIN pick}

RoutePicks(pub) ==
    LET matched == {id \in Registered : MatchingFilters(id, pub.Topic) # {}}
    IN  {pick \in [matched -> UNION {MatchingFilters(id, pub.Topic) : id \in matched}] :
            \A id \in matched : pick[id] \in MatchingFilters(id, pub.Topic)}

\* deliverMessage: the PUBLISH frame it builds.
deliverMessage(t) ==
    LET qos == Min(t.pub.QoS, t.subQoS)
    IN  [NoFrame EXCEPT
            !.type = "PUBLISH",
            !.Dup = t.pub.Dup,
            !.QoS = qos,
            !.Retain = t.pub.Retain,
            !.Topic = t.pub.Topic,
            !.PacketID = IF qos > 0
                         THEN (IF t.pub.PacketID = 0 THEN 1 ELSE t.pub.PacketID)
                         ELSE 0,
            !.Payload = t.pub.Payload,
            !.idx = t.pub.idx, !.via = t.via, !.to = t.to]

-----------------------------------------------------------------------------
(* SUBSCRIBE, UNSUBSCRIBE *)

\* handleSubscribe, "Store subscriptions": entries are stored in request order.
RECURSIVE StoreSubscriptions(_, _, _)
StoreSubscriptions(m, topics, i) ==
    IF i > Len(topics) THEN m
    ELSE StoreSubscriptions(MapPut(m, topics[i].Topic, topics[i].QoS), topics, i + 1)

\* handleSubscribe: returnCodes[i] = sub.QoS
ReturnCodes(topics) == [i \in 1..Len(topics) |-> topics[i].QoS]

\* (mutant) handleSubscribe returning before it writes the SUBACK
SubscribeFramesNone(wire, j) == <<>>

\* handleSubscribe, "Send SUBACK": the frame written before the retained scan.
SubscribeFrames(wire, j) ==
    <<SubackFrame(wire.PacketID, ReturnCodes(wire.Topics), j)>>

\* (mutant) retained delivery without the `break`: one goroutine per matching entry
RetainedTasksNoBreak(c, id, topics, store, j) ==
    {Task(c, id, store[p[1]], topics[p[2]].Topic, topics[p[2]].QoS, j) :
        p \in {q \in (DOMAIN store) \X (1..Len(topics)) : topicMatch(topics[q[2]].Topic, q[1])}}

\* handleSubscribe, "Deliver retained messages": for each retained topic the
\* first entry of the SUBSCRIBE, in request order, whose filter matches.
FirstMatch(topics, topic) ==
    LET hits == {i \in 1..Len(topics) : topicMatch(topics[i].Topic, topic)}
    IN  IF hits = {} THEN 0 ELSE CHOOSE i \in hits : \A k \in hits : i <= k

RetainedTasks(c, id, topics, store, j) ==
    {Task(c, id, store[t], topics[FirstMatch(topics, t)].Topic,
          topics[FirstMatch(topics, t)].QoS, j) :
        t \in {u \in DOMAIN store : FirstMatch(topics, u) # 0}}

\* (mutant) an UNSUBSCRIBE that drops every subscription of the session
RemoveSubscriptionsAll(m, topics, i) == EmptyMap

\* handleUnsubscribe, "Remove subscriptions".
RECURSIVE RemoveSubscriptions(_, _, _)
RemoveSubscriptions(m, topics, i) ==
    IF i > Len(topics) THEN m
    ELSE RemoveSubscriptions(MapDelete(m, topics[i]), topics, i + 1)

-----------------------------------------------------------------------------
(* The state of a Server that NewWithConfig built and whose Start is in its  *)
(* accept loop, before any connection is accepted.                         *)

NoWrite == [conn |-> NoConn]
NoMatch == [subTopic |-> <<>>, pubTopic |-> <<>>, done |-> FALSE, result |-> FALSE]
NoCall == [kind |-> "none"]

\* No codec call, no store and no statement-level run under way.
InitAside == codec = NoCall /\ queue = NoCall /\ race = NoCall /\ startLog = <<>>

\* No connection yet, nothing in the histories.
InitSessions ==
    /\ connState = [c \in Conn |-> "new"]
    /\ client = [c \in Conn |-> NoClient]
    /\ subs = [k \in Conn \X ClientIDs |-> EmptyMap]
    /\ clients = [id \in ClientIDs |-> NoConn]
    /\ retainedMsgs = EmptyMap
    /\ out = [c \in Conn |-> <<>>]
    /\ tasks = {}
    /\ crashed = FALSE
    /\ nPackets = 0
    /\ pubLog = <<>>
    /\ subLog = <<>>
    /\ failed = {}
    /\ evicted = {}
    /\ early = {}
    /\ again = {}
    /\ unsubLog = <<>>
    /\ keepAlive = [c \in Conn |-> 0]
    /\ late = {}
    /\ pingLog = <<>>
    /\ malformed = {}
    /\ blocked = {}
    /\ writing = [c \in Conn |-> NoWrite]
    /\ match = NoMatch
    /\ InitAside

Init ==
    /\ InitSessions
    /\ nilRetained = FALSE
    /\ running = TRUE
    /\ listener = "open"
    /\ startPC = "accept"
    /\ stopRet = FALSE

\* The same for a Server that New built: retainedMsgs is the nil map.
InitNew ==
    /\ InitSessions
    /\ nilRetained = TRUE
    /\ running = TRUE
    /\ listener = "open"
    /\ startPC = "accept"
    /\ stopRet = FALSE

\* A Server that NewWithConfig built, before Start is called.
InitStop ==
    /\ InitSessions
    /\ nilRetained = FALSE
    /\ running = FALSE
    /\ listener = "none"
    /\ startPC = "idle"
    /\ stopRet = FALSE

\* What the steps of Start and Stop leave alone.
sessions == <<client, subs, clients, retainedMsgs, out, tasks, crashed, nPackets,
              pubLog, subLog, failed, evicted, early, again, unsubLog, keepAlive,
              late, pingLog, malformed, nilRetained, blocked, writing, match, aside>>

\* Start, first section: under s.mu, `s.running = true` (running is false:
\* Start is called once).
StartFlag ==
    /\ ~crashed
    /\ startPC = "idle"
    /\ ~running
    /\ running' = TRUE
    /\ startPC' = "flagged"
    /\ UNCHANGED <<connState, listener, stopRet, sessions>>

\* Start: net.Listen succeeds and `s.listener = listener`, without s.mu.
StartListen ==
    /\ ~crashed
    /\ startPC = "flagged"
    /\ listener' = "open"
    /\ startPC' = "accept"
    /\ UNCHANGED <<connState, running, stopRet, sessions>>

\* Start: net.Listen fails (the port is taken) and Start returns the error.
StartListenFails ==
    /\ ~crashed
    /\ startPC = "flagged"
    /\ startPC' = "failed"
    /\ UNCHANGED <<connState, running, listener, stopRet, sessions>>

\* Start's accept loop: Accept on a closed listener returns an error; Start
\* returns nil if running is false and tries again otherwise.
AcceptFails ==
    /\ ~crashed
    /\ startPC = "accept"
    /\ listener = "closed"
    /\ startPC' = IF ~running THEN "returned" ELSE startPC
    /\ UNCHANGED <<connState, running, listener, stopRet, sessions>>

\* The sockets Stop closes: client.Conn of every entry of s.clients.
StopCloses == {clients[id] : id \in Registered}

\* Stop, "Close all client connections".
StopClosed(state) ==
    [c \in Conn |-> IF c \in StopCloses /\ state[c] = "open" THEN "closed" ELSE state[c]]

\* Stop, called on a Server whose Start was called; all of it under s.mu.
Stop ==
    /\ ~crashed
    /\ startPC # "idle"
    /\ stopRet' = TRUE
    /\ IF ~running
       THEN UNCHANGED <<running, listener, connState>>
       ELSE /\ running' = FALSE
            /\ listener' = IF listener = "open" THEN "closed" ELSE listener
            /\ connState' = StopClosed(connState)
    /\ UNCHANGED <<startPC, sessions>>

\* Start's accept loop: s.listener.Accept() returns a connection while the
\* listener is open, and `go s.handleConnection(conn)` starts its handler.
\* Sockets are accepted in the order of their numbers.
Accept(c) ==
    /\ ~crashed
    /\ startPC = "accept"
    /\ listener = "open"
    /\ connState[c] = "new"
    /\ \A d \in Conn : d < c => connState[d] # "new"
    /\ connState' = [connState EXCEPT ![c] = "open"]
    /\ late' = IF stopRet THEN late \cup {c} ELSE late
    /\ UNCHANGED <<client, subs, clients, retainedMsgs, out, tasks, crashed, nPackets,
                   pubLog, subLog, failed, evicted, early, again, unsubLog, keepAlive,
                   pingLog, malformed, rest>>

\* (mutant) conn.Write calls that do not wait for one another
FdFreeAlways(c) == TRUE

\* conn.Write on a net.Conn: the connection lets one Write call at a time put
\* bytes on the socket; a second call waits until the first has returned.
\* The broker itself takes no lock around its writes.
FdFree(c) == writing[c] = NoWrite

\* conn.Write on a socket whose peer has stopped reading and whose buffers are
\* full does not return: no write deadline is ever set.
Stuck(c) == c \in blocked /\ connState[c] = "open"

\* The handler whose routeMessage or handleSubscribe started the goroutine t.
Starter(t) == IF t.via = 0 THEN pubLog[t.pub.idx].conn ELSE subLog[t.via].conn

\* (mutant) deliverMessage called by the handler itself, without `go`
InlineAll(c) == {t \in tasks : Starter(t) = c}

\* `go s.deliverMessage(...)` in routeMessage and in handleSubscribe: of the
\* deliveries a handler starts, the ones it runs itself and has to wait for.
Inline(c) == {}

\* A packet can be read from socket c and handled: the handler of c is back in
\* its read loop and runs to its end once the socket takes its frames.
CanRead(c) ==
    /\ ~crashed
    /\ connState[c] = "open"
    /\ nPackets < MaxPackets
    /\ FdFree(c)
    /\ ~Stuck(c)
    /\ Inline(c) = {}

\* handleConnection's return: the deferred conn.Close().
Closed(c) == [connState EXCEPT ![c] = "closed"]

\* An unrecovered panic in a goroutine ends the process and with it every socket.
Panicked == [c \in Conn |-> IF connState[c] = "open" THEN "closed" ELSE connState[c]]

\* ReadFixedHeader or io.ReadFull fails (EOF, a read error): the handler returns.
ReadError(c) ==
    /\ ~crashed
    /\ connState[c] = "open"
    /\ connState' = Closed(c)
    /\ UNCHANGED <<client, subs, clients, retainedMsgs, out, tasks, crashed, nPackets,
                   pubLog, subLog, failed, evicted, early, again, unsubLog, keepAlive,
                   late, pingLog, malformed, rest>>

\* case mqtt.CONNECT: handleConnect
RecvConnect(c, wire) ==
    /\ CanRead(c)
    /\ nPackets' = nPackets + 1
    /\ IF wire.bad
       THEN /\ connState' = Closed(c)
            /\ malformed' = malformed \cup {c}
            /\ UNCHANGED <<client, subs, clients, out, evicted, again, keepAlive>>
       ELSE /\ client' = [client EXCEPT ![c] = wire.ClientID]
            /\ subs' = [subs EXCEPT ![c, wire.ClientID] = EmptyMap]
            /\ clients' = [clients EXCEPT ![wire.ClientID] = c]
            /\ out' = Write(out, c, <<ConnackFrame>>)
            /\ evicted' = IF clients[wire.ClientID] \notin {NoConn, c}
                          THEN evicted \cup {clients[wire.ClientID]} ELSE evicted
            /\ again' = IF client[c] # NoClient THEN again \cup {c} ELSE again
            /\ keepAlive' = [keepAlive EXCEPT ![c] = wire.KeepAlive]
            /\ UNCHANGED <<connState, malformed>>
    /\ UNCHANGED <<retainedMsgs, tasks, crashed, pubLog, subLog, failed, early, unsubLog,
                   late, pingLog, rest>>

\* The branches `if client == nil { return }` of PUBLISH, SUBSCRIBE, UNSUBSCRIBE.
BeforeConnect(c) ==
    /\ connState' = Closed(c)
    /\ early' = early \cup {c}
    /\ UNCHANGED <<client, subs, clients, retainedMsgs, out, tasks, crashed,
                   pubLog, subLog, failed, evicted, again, unsubLog, keepAlive,
                   late, pingLog, malformed, rest>>

\* case mqtt.PUBLISH: handlePublish
RecvPublish(c, wire) ==
    /\ CanRead(c)
    /\ nPackets' = nPackets + 1
    /\ IF client[c] = NoClient THEN BeforeConnect(c)
       ELSE IF wire.bad THEN
            /\ malformed' = malformed \cup {c}
            /\ UNCHANGED <<connState, client, subs, clients, retainedMsgs, out, tasks, crashed,
                           pubLog, subLog, failed, evicted, early, again, unsubLog, keepAlive,
                           late, pingLog, rest>>
       ELSE IF StorePanics(DecodePublishPacket(wire, Len(pubLog) + 1)) THEN
            /\ crashed' = TRUE
            /\ connState' = Panicked
            /\ UNCHANGED <<client, subs, clients, retainedMsgs, out, tasks,
                           pubLog, subLog, failed, evicted, early, again, unsubLog, keepAlive,
                           late, pingLog, malformed, rest>>
       ELSE LET pub == DecodePublishPacket(wire, Len(pubLog) + 1) IN
            /\ retainedMsgs' = RetainedAfter(retainedMsgs, pub)
            /\ \E pick \in RoutePicks(pub) :
                   tasks' = tasks \cup RouteTasks(pub, pick)
            /\ out' = Write(out, c, PubackFrames(pub))
            /\ pubLog' = Append(pubLog,
                   [conn |-> c, wire |-> wire, pub |-> pub, reg |-> clients,
                    state |-> connState,
                    flt |-> [id \in ClientIDs |->
                               IF clients[id] = NoConn THEN {}
                               ELSE DOMAIN subs[clients[id], id]],
                    granted |-> [id \in ClientIDs |->
                               IF clients[id] = NoConn THEN EmptyMap
                               ELSE subs[clients[id], id]]])
            /\ UNCHANGED <<connState, client, subs, clients, crashed, subLog, failed,
                           evicted, early, again, unsubLog, keepAlive,
                   late, pingLog, malformed, rest>>

\* case mqtt.SUBSCRIBE: handleSubscribe
RecvSubscribe(c, wire) ==
    /\ CanRead(c)
    /\ nPackets' = nPackets + 1
    /\ IF client[c] = NoClient THEN BeforeConnect(c)
       ELSE IF wire.bad THEN
            /\ malformed' = malformed \cup {c}
            /\ UNCHANGED <<connState, client, subs, clients, retainedMsgs, out, tasks, crashed,
                           pubLog, subLog, failed, evicted, early, again, unsubLog, keepAlive,
                           late, pingLog, rest>>
       ELSE LET j == Len(subLog) + 1 IN
            /\ subs' = [subs EXCEPT ![c, client[c]] = StoreSubscriptions(@, wire.Topics, 1)]
            /\ out' = Write(out, c, SubscribeFrames(wire, j))
            /\ tasks' = tasks \cup RetainedTasks(c, client[c], wire.Topics, retainedMsgs, j)
            /\ subLog' = Append(subLog,
                   [conn |-> c, id |-> client[c], Topics |-> wire.Topics,
                    npub |-> Len(pubLog), store |-> retainedMsgs,
                    granted |-> subs'[c, client[c]]])
            /\ UNCHANGED <<connState, client, clients, retainedMsgs, crashed, pubLog, failed,
                           evicted, early, again, unsubLog, keepAlive,
                   late, pingLog, malformed, rest>>

\* case mqtt.UNSUBSCRIBE: handleUnsubscribe
RecvUnsubscribe(c, wire) ==
    /\ CanRead(c)
    /\ nPackets' = nPackets + 1
    /\ IF client[c] = NoClient THEN BeforeConnect(c)
       ELSE IF wire.bad THEN
            /\ malformed' = malformed \cup {c}
            /\ UNCHANGED <<connState, client, subs, clients, retainedMsgs, out, tasks, crashed,
                           pubLog, subLog, failed, evicted, early, again, unsubLog, keepAlive,
                           late, pingLog, rest>>
       ELSE /\ subs' = [subs EXCEPT ![c, client[c]] = RemoveSubscriptions(@, wire.Topics, 1)]
            /\ out' = Write(out, c, <<UnsubackFrame(wire.PacketID)>>)
            /\ unsubLog' = Append(unsubLog,
                   [conn |-> c, id |-> client[c], wire |-> wire,
                    before |-> subs, after |-> subs'])
            /\ UNCHANGED <<connState, client, clients, retainedMsgs, tasks, crashed,
                           pubLog, subLog, failed, evicted, early, again, keepAlive,
                   late, pingLog, malformed, rest>>

\* What the handlers and the deliverMessage goroutines share.
Broker == [clients |-> clients, subs |-> subs, retainedMsgs |-> retainedMsgs,
           out |-> out, tasks |-> tasks, connState |-> connState]

\* (mutant) handlePingreq without its conn.Write
PingreqFramesNone == <<>>

\* handlePingreq: the frames it writes.
PingreqFrames == <<PingrespFrame>>

\* case mqtt.PINGREQ: handlePingreq(conn), whether or not client is nil
RecvPingreq(c) ==
    /\ CanRead(c)
    /\ nPackets' = nPackets + 1
    /\ out' = Write(out, c, PingreqFrames)
    /\ early' = IF client[c] = NoClient THEN early \cup {c} ELSE early
    /\ UNCHANGED <<connState, client, subs, clients, retainedMsgs, tasks, crashed,
                   pubLog, subLog, failed, evicted, again, unsubLog, keepAlive,
                   late, malformed, rest>>
    /\ pingLog' = Append(pingLog, [conn |-> c, id |-> client[c], before |-> Broker,
                                    after |-> Broker'])

\* case mqtt.DISCONNECT: logs client.ID and returns; client.ID of a nil client
\* is a nil pointer dereference.
RecvDisconnect(c) ==
    /\ CanRead(c)
    /\ nPackets' = nPackets + 1
    /\ IF client[c] = NoClient
       THEN /\ crashed' = TRUE
            /\ connState' = Panicked
            /\ early' = early \cup {c}
       ELSE /\ connState' = Closed(c)
            /\ UNCHANGED <<crashed, early>>
    /\ UNCHANGED <<client, subs, clients, retainedMsgs, out, tasks,
                   pubLog, subLog, failed, evicted, again, unsubLog, keepAlive,
                   late, pingLog, malformed, rest>>

\* default: any other packet type (PUBACK, PUBREC, ...) is logged and skipped.
RecvOther(c) ==
    /\ CanRead(c)
    /\ nPackets' = nPackets + 1
    /\ early' = IF client[c] = NoClient THEN early \cup {c} ELSE early
    /\ UNCHANGED <<connState, client, subs, clients, retainedMsgs, out, tasks, crashed,
                   pubLog, subLog, failed, evicted, again, unsubLog, keepAlive,
                   late, pingLog, malformed, rest>>

\* One deliverMessage goroutine runs: client.Conn.Write succeeds on an open
\* socket and returns an error on a closed one.
Deliver(t) ==
    /\ ~crashed
    /\ t \in tasks
    /\ FdFree(t.conn)
    /\ ~Stuck(t.conn)
    /\ tasks' = tasks \ {t}
    /\ IF connState[t.conn] = "open"
       THEN /\ out' = Write(out, t.conn, <<deliverMessage(t)>>)
            /\ UNCHANGED failed
       ELSE /\ failed' = failed \cup {t}
            /\ UNCHANGED out
    /\ UNCHANGED <<connState, client, subs, clients, retainedMsgs, crashed, nPackets,
                   pubLog, subLog, evicted, early, again, unsubLog, keepAlive,
                   late, pingLog, malformed, rest>>

\* One deliverMessage goroutine whose client.Conn.Write puts the frame on
\* the socket in two steps (the socket buffer took only a part of it at
\* first): the first part ...
DeliverBegin(t) ==
    /\ ~crashed
    /\ t \in tasks
    /\ connState[t.conn] = "open"
    /\ FdFree(t.conn)
    /\ ~Stuck(t.conn)
    /\ tasks' = tasks \ {t}
    /\ writing' = [writing EXCEPT ![t.conn] = t]
    /\ out' = Write(out, t.conn, <<[deliverMessage(t) EXCEPT !.part = 1]>>)
    /\ UNCHANGED <<connState, client, subs, clients, retainedMsgs, crashed, nPackets,
                   pubLog, subLog, failed, evicted, early, again, unsubLog, keepAlive,
                   late, pingLog, malformed, nilRetained, running, listener, startPC,
                   stopRet, blocked, match, aside>>

\* ... and the rest, after which Write returns; on a socket closed meanwhile
\* Write returns an error.
DeliverEnd(c) ==
    /\ ~crashed
    /\ writing[c] # NoWrite
    /\ writing' = [writing EXCEPT ![c] = NoWrite]
    /\ IF connState[c] = "open"
       THEN /\ out' = Write(out, c, <<[deliverMessage(writing[c]) EXCEPT !.part = 2]>>)
            /\ UNCHANGED failed
       ELSE /\ failed' = failed \cup {writing[c]}
            /\ UNCHANGED out
    /\ UNCHANGED <<connState, client, subs, clients, retainedMsgs, tasks, crashed, nPackets,
                   pubLog, subLog, evicted, early, again, unsubLog, keepAlive,
                   late, pingLog, malformed, nilRetained, running, listener, startPC,
                   stopRet, blocked, match, aside>>

\* The peer of socket c stops reading: from now on a Write to c does not return.
Block(c) ==
    /\ ~crashed
    /\ connState[c] = "open"
    /\ c \notin blocked
    /\ blocked' = blocked \cup {c}
    /\ UNCHANGED <<connState, client, subs, clients, retainedMsgs, out, tasks, crashed,
                   nPackets, pubLog, subLog, failed, evicted, early, again, unsubLog,
                   keepAlive, late, pingLog, malformed, nilRetained, running, listener,
                   startPC, stopRet, writing, match, aside>>

-----------------------------------------------------------------------------
(* The packets the clients send. *)

TopicAB == <<"a", "/", "b">>
TopicC == <<"c">>
FilterAPlus == <<"a", "/", "+">>
FilterHash == <<"#">>
PayloadP == <<"p">>
PayloadQ == <<"q">>

ConnectWire(id, ka, bad) == [ClientID |-> id, KeepAlive |-> ka, bad |-> bad]
PublishWire(topic, payload, qos, pid, retain, dup) ==
    [Dup |-> dup, QoS |-> qos, Retain |-> retain, Topic |-> topic, PacketID |-> pid,
     Payload |-> payload, bad |-> FALSE]
BadPublish == [PublishWire(TopicAB, PayloadP, 0, 0, FALSE, FALSE) EXCEPT !.bad = TRUE]
Sub(filter, qos) == [Topic |-> filter, QoS |-> qos]
SubscribeWire(pid, topics) == [PacketID |-> pid, Topics |-> topics, bad |-> FALSE]
UnsubscribeWire(pid, topics) == [PacketID |-> pid, Topics |-> topics, bad |-> FALSE]

\* Session handling: every packet type, few packets of each.
Connects == {ConnectWire("x", 0, FALSE), ConnectWire("y", 2, FALSE), ConnectWire("x", 0, TRUE)}
Publishes ==
    {PublishWire(TopicAB, PayloadP, 0, 0, FALSE, FALSE),
     PublishWire(TopicAB, PayloadQ, 1, 1, TRUE, FALSE),
     BadPublish}
Subscribes ==
    {SubscribeWire(1, <<Sub(FilterAPlus, 1)>>),
     [SubscribeWire(1, <<>>) EXCEPT !.bad = TRUE]}
Unsubscribes ==
    {UnsubscribeWire(2, <<FilterAPlus>>),
     [UnsubscribeWire(2, <<>>) EXCEPT !.bad = TRUE]}

Next ==
    \E c \in Conn :
        \/ Accept(c)
        \/ ReadError(c)
        \/ \E w \in Connects : RecvConnect(c, w)
        \/ \E w \in Publishes : RecvPublish(c, w)
        \/ \E w \in Subscribes : RecvSubscribe(c, w)
        \/ \E w \in Unsubscribes : RecvUnsubscribe(c, w)
        \/ RecvPingreq(c)
        \/ RecvDisconnect(c)
        \/ RecvOther(c)
        \/ \E t \in tasks : Deliver(t)

Spec == Init /\ [][Next]_vars

\* Routing: publishes on two topics at QoS 0 and 1, filters that match one
\* topic, both or none, sessions that come and go.
RouteConnects == {ConnectWire("x", 0, FALSE), ConnectWire("y", 2, FALSE)}
RoutePublishes ==
    {PublishWire(t, pl, 0, 0, FALSE, FALSE) : t \in {TopicAB, TopicC}, pl \in {PayloadP, PayloadQ}}
    \cup {PublishWire(t, PayloadP, 1, 1, FALSE, FALSE) : t \in {TopicAB, TopicC}}
    \cup {PublishWire(t, PayloadQ, 1, 2, FALSE, FALSE) : t \in {TopicAB, TopicC}}
RouteSubscribes ==
    {SubscribeWire(1, <<Sub(FilterAPlus, 0)>>),
     SubscribeWire(2, <<Sub(FilterHash, 1)>>),
     SubscribeWire(3, <<Sub(FilterAPlus, 1), Sub(FilterHash, 0)>>),
     SubscribeWire(4, <<Sub(TopicC, 0)>>)}
RouteUnsubscribes == {UnsubscribeWire(5, <<FilterAPlus>>)}

NextRoute ==
    \E c \in Conn :
        \/ Accept(c)
        \/ ReadError(c)
        \/ \E w \in RouteConnects : RecvConnect(c, w)
        \/ \E w \in RoutePublishes : RecvPublish(c, w)
        \/ \E w \in RouteSubscribes : RecvSubscribe(c, w)
        \/ \E w \in RouteUnsubscribes : RecvUnsubscribe(c, w)
        \/ RecvDisconnect(c)
        \/ \E t \in tasks : Deliver(t)

SpecRoute == Init /\ [][NextRoute]_vars

\* Retained messages: retain=1 and retain=0 publishes with empty and
\* non-empty payloads, subscribes with one and with several matching filters.
RetainPublishes ==
    {PublishWire(t, pl, 0, 0, r, FALSE) :
        t \in {TopicAB, TopicC}, pl \in {<<>>, PayloadP, PayloadQ}, r \in BOOLEAN}
RetainSubscribes ==
    {SubscribeWire(1, <<Sub(FilterAPlus, 0)>>),
     SubscribeWire(2, <<Sub(FilterHash, 0), Sub(FilterAPlus, 0)>>),
     SubscribeWire(3, <<Sub(TopicC, 0)>>)}

NextRetain ==
    \E c \in Conn :
        \/ Accept(c)
        \/ ReadError(c)
        \/ \E w \in RouteConnects : RecvConnect(c, w)
        \/ \E w \in RetainPublishes : RecvPublish(c, w)
        \/ \E w \in RetainSubscribes : RecvSubscribe(c, w)
        \/ \E t \in tasks : Deliver(t)

SpecRetain == Init /\ [][NextRetain]_vars

\* Quality of service: subscriptions that ask for QoS 0, 1 and 2, with filters
\* that are not well formed (a wildcard sharing a level, '#' before the last
\* level) next to well-formed ones; publishes at QoS 0, 1 and 2, one of them
\* a retained re-transmission (retain=1, dup=1).
FilterAandPlus == <<"a", "+">>
FilterHashA == <<"#", "/", "a">>
QoSPublishes ==
    {PublishWire(TopicAB, PayloadP, 2, 1, FALSE, FALSE),
     PublishWire(TopicAB, PayloadQ, 1, 2, TRUE, TRUE),
     PublishWire(TopicAB, PayloadP, 0, 0, TRUE, FALSE)}
QoSSubscribes ==
    {SubscribeWire(1, <<Sub(FilterAPlus, 2)>>),
     SubscribeWire(2, <<Sub(FilterHash, 1), Sub(FilterAPlus, 0)>>),
     SubscribeWire(3, <<Sub(FilterHashA, 1), Sub(FilterAPlus, 1)>>),
     SubscribeWire(4, <<Sub(FilterAandPlus, 0)>>)}

NextQoS ==
    \E c \in Conn :
        \/ Accept(c)
        \/ ReadError(c)
        \/ \E w \in RouteConnects : RecvConnect(c, w)
        \/ \E w \in QoSPublishes : RecvPublish(c, w)
        \/ \E w \in QoSSubscribes : RecvSubscribe(c, w)
        \/ \E t \in tasks : Deliver(t)

SpecQoS == Init /\ [][NextQoS]_vars

\* Unsubscribing: sessions with one, two and no filters; UNSUBSCRIBE packets
\* that list one filter or two, subscribed or not.
UnsubSubscribes ==
    {SubscribeWire(1, <<Sub(FilterAPlus, 1), Sub(FilterHash, 0)>>),
     SubscribeWire(2, <<Sub(TopicC, 0)>>)}
UnsubUnsubscribes ==
    {UnsubscribeWire(3, <<FilterAPlus>>),
     UnsubscribeWire(4, <<FilterHash, TopicC>>)}
UnsubPublishes == {PublishWire(TopicAB, PayloadP, 0, 0, FALSE, FALSE)}

NextUnsub ==
    \E c \in Conn :
        \/ Accept(c)
        \/ ReadError(c)
        \/ \E w \in RouteConnects : RecvConnect(c, w)
        \/ \E w \in UnsubPublishes : RecvPublish(c, w)
        \/ \E w \in UnsubSubscribes : RecvSubscribe(c, w)
        \/ \E w \in UnsubUnsubscribes : RecvUnsubscribe(c, w)
        \/ \E t \in tasks : Deliver(t)

SpecUnsub == Init /\ [][NextUnsub]_vars

\* A Server built by New: retain=1 publishes with and without payload, and
\* packets of every kind before and after CONNECT.
NewPublishes ==
    {PublishWire(TopicAB, PayloadP, 0, 0, FALSE, FALSE),
     PublishWire(TopicAB, PayloadP, 0, 0, TRUE, FALSE),
     PublishWire(TopicAB, <<>>, 0, 0, TRUE, FALSE)}

NextNew ==
    \E c \in Conn :
        \/ Accept(c)
        \/ ReadError(c)
        \/ \E w \in Connects : RecvConnect(c, w)
        \/ \E w \in NewPublishes : RecvPublish(c, w)
        \/ \E w \in Subscribes : RecvSubscribe(c, w)
        \/ RecvPingreq(c)
        \/ RecvDisconnect(c)
        \/ RecvOther(c)
        \/ \E t \in tasks : Deliver(t)

SpecNew == InitNew /\ [][NextNew]_vars

\* Publishes whose topic holds a wildcard, retained or not, next to one
\* without; subscribers with wildcard filters.
WildPublishes ==
    {PublishWire(FilterAPlus, PayloadP, 0, 0, FALSE, FALSE),
     PublishWire(FilterHash, PayloadQ, 0, 0, TRUE, FALSE),
     PublishWire(TopicAB, PayloadP, 0, 0, TRUE, FALSE)}
WildSubscribes ==
    {SubscribeWire(1, <<Sub(FilterAPlus, 0)>>),
     SubscribeWire(2, <<Sub(FilterHash, 0)>>)}

NextWild ==
    \E c \in Conn :
        \/ Accept(c)
        \/ ReadError(c)
        \/ \E w \in RouteConnects : RecvConnect(c, w)
        \/ \E w \in WildPublishes : RecvPublish(c, w)
        \/ \E w \in WildSubscribes : RecvSubscribe(c, w)
        \/ \E t \in tasks : Deliver(t)

SpecWild == Init /\ [][NextWild]_vars

\* Start and Stop: one call of Start, calls of Stop at any moment after it,
\* clients that connect (twice under one ID, too), send PINGREQ or stay silent.
NextStop ==
    \/ StartFlag
    \/ StartListen
    \/ StartListenFails
    \/ AcceptFails
    \/ Stop
    \/ \E c \in Conn :
        \/ Accept(c)
        \/ ReadError(c)
        \/ \E w \in RouteConnects : RecvConnect(c, w)
        \/ RecvPingreq(c)

SpecStop == InitStop /\ [][NextStop]_vars

\* Start called again: after an earlier call returned its bind error, or while
\* the first call is in its accept loop (at most MaxStarts such calls).
MaxStarts == 2

\* Start, called when startPC = "failed" or "accept": under s.mu, `if s.running`
\* returns "server is already running"; otherwise it sets the flag and goes on
\* to net.Listen.
StartAgain ==
    /\ ~crashed
    /\ Len(startLog) < MaxStarts
    /\ \/ startPC = "failed"
       \/ startPC = "accept" /\ running
    /\ IF running
       THEN /\ startLog' = Append(startLog, [at |-> startPC, err |-> "already running",
                                             listener |-> listener])
            /\ UNCHANGED <<running, startPC>>
       ELSE /\ running' = TRUE
            /\ startPC' = "flagged"
            /\ startLog' = Append(startLog, [at |-> startPC, err |-> "none",
                                             listener |-> listener])
    /\ UNCHANGED <<connState, client, subs, clients, retainedMsgs, out, tasks, crashed,
                   nPackets, pubLog, subLog, failed, evicted, early, again, unsubLog,
                   keepAlive, late, pingLog, malformed, nilRetained, listener, stopRet,
                   blocked, writing, match, codec, queue, race>>

NextStart ==
    \/ StartFlag
    \/ StartListen
    \/ StartListenFails
    \/ StartAgain
    \/ AcceptFails
    \/ Stop
    \/ \E c \in Conn :
        \/ Accept(c)
        \/ ReadError(c)
        \/ \E w \in RouteConnects : RecvConnect(c, w)
        \/ RecvPingreq(c)

SpecStart == InitStop /\ [][NextStart]_vars

\* Concurrent writers of one socket: a session that subscribes, publishes to
\* itself or is published to, and sends PINGREQ while deliveries to it are
\* under way; every delivered frame is written in two steps.
WritePublishes ==
    {PublishWire(TopicAB, PayloadP, 1, 1, FALSE, FALSE),
     PublishWire(TopicAB, PayloadQ, 0, 0, TRUE, FALSE)}
WriteSubscribes == {SubscribeWire(1, <<Sub(FilterAPlus, 1)>>)}

NextWrite ==
    \E c \in Conn :
        \/ Accept(c)
        \/ ReadError(c)
        \/ \E w \in RouteConnects : RecvConnect(c, w)
        \/ \E w \in WritePublishes : RecvPublish(c, w)
        \/ \E w \in WriteSubscribes : RecvSubscribe(c, w)
        \/ RecvPingreq(c)
        \/ \E t \in tasks : DeliverBegin(t)
        \/ DeliverEnd(c)

SpecWrite == Init /\ [][NextWrite]_vars

\* Subscribers that stop reading: both sockets are accepted, x on socket 1
\* and y on socket 2 have connected and subscribed to a/+, and every frame of
\* that is on the sockets; two more packets are read from here.
BlockSubscribe == SubscribeWire(1, <<Sub(FilterAPlus, 0)>>)
BlockPublishes ==
    {PublishWire(TopicAB, PayloadP, 1, 1, FALSE, FALSE),
     PublishWire(TopicAB, PayloadQ, 0, 0, FALSE, FALSE)}

InitBlock ==
    /\ connState = [c \in Conn |-> IF c <= 2 THEN "open" ELSE "new"]
    /\ client = [c \in Conn |-> IF c = 1 THEN "x" ELSE IF c = 2 THEN "y" ELSE NoClient]
    /\ clients = [id \in ClientIDs |-> IF id = "x" THEN 1 ELSE 2]
    /\ subs = [k \in Conn \X ClientIDs |->
                 IF k \in {<<1, "x">>, <<2, "y">>}
                 THEN StoreSubscriptions(EmptyMap, BlockSubscribe.Topics, 1)
                 ELSE EmptyMap]
    /\ retainedMsgs = EmptyMap
    /\ out = [c \in Conn |-> IF c <= 2
                               THEN <<ConnackFrame>> \o SubscribeFrames(BlockSubscribe, c)
                               ELSE <<>>]
    /\ subLog = [c \in 1..2 |->
                   [conn |-> c, id |-> client[c], Topics |-> BlockSubscribe.Topics,
                    npub |-> 0, store |-> EmptyMap,
                    granted |-> StoreSubscriptions(EmptyMap, BlockSubscribe.Topics, 1)]]
    /\ keepAlive = [c \in Conn |-> IF c = 2 THEN 2 ELSE 0]
    /\ tasks = {}
    /\ crashed = FALSE
    /\ nPackets = MaxPackets - 2
    /\ pubLog = <<>>
    /\ failed = {}
    /\ evicted = {}
    /\ early = {}
    /\ again = {}
    /\ unsubLog = <<>>
    /\ late = {}
    /\ pingLog = <<>>
    /\ malformed = {}
    /\ blocked = {}
    /\ writing = [c \in Conn |-> NoWrite]
    /\ match = NoMatch
    /\ InitAside
    /\ nilRetained = FALSE
    /\ running = TRUE
    /\ listener = "open"
    /\ startPC = "accept"
    /\ stopRet = FALSE

NextBlock ==
    \/ \E c \in Conn :
        \/ ReadError(c)
        \/ Block(c)
        \/ \E w \in BlockPublishes : RecvPublish(c, w)
        \/ RecvPingreq(c)
    \/ \E t \in tasks : Deliver(t)

SpecBlock == InitBlock /\ [][NextBlock]_vars

\* topicMatch on its own: a filter and a topic of up to MaxLevels levels over
\* the level names a, b, the empty level and the wildcards, and the filters
\* and topics of the examples (a name such as home is one symbol); the empty
\* string is left out.
MaxLevels == 3

RECURSIVE Join(_)
Join(levels) ==
    IF Len(levels) = 0 THEN <<>>
    ELSE IF Len(levels) = 1 THEN levels[1]
    ELSE levels[1] \o <<"/">> \o Join(Tail(levels))

TopicLevels == {<<>>, <<"a">>, <<"b">>}
FilterLevels == TopicLevels \cup {<<"+">>, <<"#">>}
LevelSeqs(L) == UNION {[1..n -> L] : n \in 1..MaxLevels}

ExampleFilters ==
    {<<"home", "/", "#">>, <<"home", "/", "+", "/", "sensors", "/", "#">>}
ExampleTopics ==
    {<<"home">>, <<"home", "/", "a">>, <<"home", "/", "a", "/", "b">>,
     <<"house", "/", "a">>,
     <<"home", "/", "living", "/", "sensors", "/", "temp">>,
     <<"home", "/", "bedroom", "/", "sensors", "/", "motion", "/", "front">>,
     <<"home", "/", "sensors", "/", "temp">>,
     <<"office", "/", "living", "/", "sensors", "/", "temp">>,
     <<"$", "S", "Y", "S">>, <<"$", "S", "Y", "S", "/", "a">>, <<"$", "a", "/", "b">>}

MatchFilters == ({Join(l) : l \in LevelSeqs(FilterLevels)} \ {<<>>}) \cup ExampleFilters
MatchTopics == ({Join(l) : l \in LevelSeqs(TopicLevels)} \ {<<>>}) \cup ExampleTopics

InitMatch ==
    /\ connState = [c \in Conn |-> "new"]
    /\ client = [c \in Conn |-> NoClient]
    /\ subs = [k \in Conn \X ClientIDs |-> EmptyMap]
    /\ clients = [id \in ClientIDs |-> NoConn]
    /\ retainedMsgs = EmptyMap
    /\ out = [c \in Conn |-> <<>>]
    /\ tasks = {}
    /\ crashed = FALSE
    /\ nPackets = 0
    /\ pubLog = <<>>
    /\ subLog = <<>>
    /\ failed = {}
    /\ evicted = {}
    /\ early = {}
    /\ again = {}
    /\ unsubLog = <<>>
    /\ keepAlive = [c \in Conn |-> 0]
    /\ late = {}
    /\ pingLog = <<>>
    /\ malformed = {}
    /\ blocked = {}
    /\ writing = [c \in Conn |-> NoWrite]
    /\ \E f \in MatchFilters, t \in MatchTopics :
           match = [subTopic |-> f, pubTopic |-> t, done |-> FALSE, result |-> FALSE]
    /\ InitAside
    /\ nilRetained = FALSE
    /\ running = TRUE
    /\ listener = "open"
    /\ startPC = "accept"
    /\ stopRet = FALSE

\* One call topicMatch(subTopic, pubTopic).
Match ==
    /\ ~match.done
    /\ match' = [match EXCEPT !.done = TRUE,
                              !.result = topicMatch(match.subTopic, match.pubTopic)]
    /\ UNCHANGED <<connState, client, subs, clients, retainedMsgs, out, tasks, crashed,
                   nPackets, pubLog, subLog, failed, evicted, early, again, unsubLog,
                   keepAlive, late, pingLog, malformed, nilRetained, running, listener,
                   startPC, stopRet, blocked, writing, aside>>

NextMatch == Match

SpecMatch == InitMatch /\ [][NextMatch]_vars

-----------------------------------------------------------------------------
(* The codec on its own. Bytes are the numbers 0..255. *)

\* Every variable of the broker's connections, and topicMatch's.
broker == <<connState, client, subs, clients, retainedMsgs, out, tasks, crashed,
            nPackets, pubLog, subLog, failed, evicted, early, again, unsubLog,
            keepAlive, late, pingLog, malformed, nilRetained, running, listener,
            startPC, stopRet, blocked, writing, match>>

\* A server in its accept loop with no connection: Init without InitAside.
InitBroker ==
    /\ connState = [c \in Conn |-> "new"]
    /\ client = [c \in Conn |-> NoClient]
    /\ subs = [k \in Conn \X ClientIDs |-> EmptyMap]
    /\ clients = [id \in ClientIDs |-> NoConn]
    /\ retainedMsgs = EmptyMap
    /\ out = [c \in Conn |-> <<>>]
    /\ tasks = {}
    /\ crashed = FALSE
    /\ nPackets = 0
    /\ pubLog = <<>>
    /\ subLog = <<>>
    /\ failed = {}
    /\ evicted = {}
    /\ early = {}
    /\ again = {}
    /\ unsubLog = <<>>
    /\ keepAlive = [c \in Conn |-> 0]
    /\ late = {}
    /\ pingLog = <<>>
    /\ malformed = {}
    /\ blocked = {}
    /\ writing = [c \in Conn |-> NoWrite]
    /\ match = NoMatch
    /\ nilRetained = FALSE
    /\ running = TRUE
    /\ listener = "open"
    /\ startPC = "accept"
    /\ stopRet = FALSE

\* (mutant) the remaining length written as the single byte byte(remainingLen)
RemainingLenBytesOne(x) == <<x % 256>>

\* deliverMessage, "Write remaining length": one byte below 128, else seven
\* bits a byte, low bits first, 0x80 set on every byte but the last.
RECURSIVE RemainingLenBytes(_)
RemainingLenBytes(x) ==
    IF x < 128 THEN <<x>>
    ELSE <<(x % 128) + 128>> \o RemainingLenBytes(x \div 128)

\* ReadFixedHeader's loop over the length bytes from position i on: the
\* value, the position of the last byte read, and whether it returned
\* without an error.
RECURSIVE ReadRemainingLen(_, _, _, _)
ReadRemainingLen(bytes, i, multiplier, value) ==
    IF i > Len(bytes) THEN [ok |-> FALSE, value |-> 0, read |-> i - 1]
    ELSE LET v == value + (bytes[i] % 128) * multiplier IN
         IF bytes[i] < 128 THEN [ok |-> TRUE, value |-> v, read |-> i]
         ELSE IF multiplier * 128 > 128 * 128 * 128
              THEN [ok |-> FALSE, value |-> 0, read |-> i]
              ELSE ReadRemainingLen(bytes, i + 1, multiplier * 128, v)

\* Remaining lengths: the values within LenSpread of each point where the
\* number of length bytes changes, of 0, of the largest length and of 100 KB.
LenSpread == 8
LenValues ==
    {x \in UNION {(b - LenSpread)..(b + LenSpread) :
                     b \in {0, 128, 128 * 128, 128 * 128 * 128, 102400, 268435455}} :
        x >= 0 /\ x <= 268435455}

InitLen ==
    /\ InitBroker
    /\ queue = NoCall /\ race = NoCall /\ startLog = <<>>
    /\ \E x \in LenValues :
           codec = [kind |-> "len", remainingLen |-> x, bytes |-> <<>>, pc |-> "encode",
                    header |-> [ok |-> FALSE, value |-> 0, read |-> 0]]

\* deliverMessage writes the length bytes of its frame.
WriteRemainingLen ==
    /\ codec.kind = "len" /\ codec.pc = "encode"
    /\ codec' = [codec EXCEPT !.bytes = RemainingLenBytes(codec.remainingLen),
                              !.pc = "decode"]
    /\ UNCHANGED <<broker, queue, race, startLog>>

\* The receiver's ReadFixedHeader reads them.
ReadFixedHeader ==
    /\ codec.kind = "len" /\ codec.pc = "decode"
    /\ codec' = [codec EXCEPT !.header = ReadRemainingLen(codec.bytes, 1, 1, 0),
                              !.pc = "done"]
    /\ UNCHANGED <<broker, queue, race, startLog>>

NextLen == WriteRemainingLen \/ ReadFixedHeader

SpecLen == InitLen /\ [][NextLen]_vars

\* PublishPacket.Encode: it returns no bytes and an error for every packet.
PublishEncode(p) == [data |-> <<>>, err |-> TRUE]

NoPublish == [Dup |-> FALSE, QoS |-> 0, Retain |-> FALSE, Topic |-> <<>>,
              PacketID |-> 0, Payload |-> <<>>]
DecodeError == [ok |-> FALSE, pkt |-> NoPublish]

\* ReadFixedHeader, then DecodePublishPacket, on the bytes of one frame; a
\* read past the end of the bytes is the error io.ReadFull returns.
DecodePublishBytes(bytes) ==
    IF Len(bytes) < 1 THEN DecodeError
    ELSE
    LET flags == bytes[1] % 16
        h == ReadRemainingLen(bytes, 2, 1, 0)
        body == SubSeq(bytes, h.read + 1, Len(bytes))
        qos == (flags \div 2) % 4
        topicLen == body[1] * 256 + body[2]
        idLen == IF qos > 0 THEN 2 ELSE 0
        bytesRead == 2 + topicLen + idLen
        payloadLen == h.value - bytesRead
    IN  IF ~h.ok \/ Len(body) < 2 THEN DecodeError
        ELSE IF Len(body) < bytesRead THEN DecodeError
        ELSE IF payloadLen > 0 /\ Len(body) < bytesRead + payloadLen THEN DecodeError
        ELSE [ok |-> TRUE,
              pkt |-> [Dup |-> (flags \div 8) % 2 = 1,
                       QoS |-> qos,
                       Retain |-> flags % 2 = 1,
                       Topic |-> SubSeq(body, 3, 2 + topicLen),
                       PacketID |-> IF qos > 0
                                    THEN body[3 + topicLen] * 256 + body[4 + topicLen]
                                    ELSE 0,
                       Payload |-> IF payloadLen > 0
                                   THEN SubSeq(body, bytesRead + 1, bytesRead + payloadLen)
                                   ELSE <<>>]]

\* PUBLISH packets of every QoS and flag, with topics a and a/b as bytes.
CodecPublishes ==
    {[Dup |-> d, QoS |-> q, Retain |-> r, Topic |-> t, PacketID |-> id, Payload |-> pl] :
        d \in BOOLEAN, q \in 0..2, r \in BOOLEAN, t \in {<<97>>, <<97, 47, 98>>},
        id \in {1, 300}, pl \in {<<>>, <<1>>, <<1, 2>>}}

InitCodec ==
    /\ InitBroker
    /\ queue = NoCall /\ race = NoCall /\ startLog = <<>>
    /\ \E p \in CodecPublishes :
           codec = [kind |-> "publish", pkt |-> p, pc |-> "encode",
                    encoded |-> [data |-> <<>>, err |-> FALSE], decoded |-> DecodeError]

\* p.Encode()
EncodePublish ==
    /\ codec.kind = "publish" /\ codec.pc = "encode"
    /\ codec' = [codec EXCEPT !.encoded = PublishEncode(codec.pkt), !.pc = "decode"]
    /\ UNCHANGED <<broker, queue, race, startLog>>

\* The bytes Encode returned are read back.
DecodePublish ==
    /\ codec.kind = "publish" /\ codec.pc = "decode"
    /\ codec' = [codec EXCEPT !.decoded = DecodePublishBytes(codec.encoded.data),
                              !.pc = "done"]
    /\ UNCHANGED <<broker, queue, race, startLog>>

NextCodec == EncodePublish \/ DecodePublish

SpecCodec == InitCodec /\ [][NextCodec]_vars

\* SubackPacket.Encode: buf[1] = byte(2 + len(s.ReturnCodes)), one byte
\* whatever the number of return codes.
SubackEncode(packetID, returnCodes) ==
    <<9 * 16, (2 + Len(returnCodes)) % 256, packetID \div 256, packetID % 256>>
        \o returnCodes

\* A SUBSCRIBE with n filters, all at one QoS, as DecodeSubscribePacket
\* returns it: it reads filters until the remaining length is used up and
\* puts no limit on their number.
MaxFilters == 130
SubackTopics(n, qos) == [i \in 1..n |-> Sub(FilterAPlus, qos)]

InitSuback ==
    /\ InitBroker
    /\ queue = NoCall /\ race = NoCall /\ startLog = <<>>
    /\ \E n \in 1..MaxFilters, qos \in 0..1 :
           codec = [kind |-> "suback", wire |-> SubscribeWire(1, SubackTopics(n, qos)),
                    bytes |-> <<>>, pc |-> "encode",
                    header |-> [ok |-> FALSE, value |-> 0, read |-> 0]]

\* handleSubscribe, "Send SUBACK": suback.Encode() on the return codes.
EncodeSuback ==
    /\ codec.kind = "suback" /\ codec.pc = "encode"
    /\ codec' = [codec EXCEPT
                    !.bytes = SubackEncode(codec.wire.PacketID, ReturnCodes(codec.wire.Topics)),
                    !.pc = "decode"]
    /\ UNCHANGED <<broker, queue, race, startLog>>

\* The client's ReadFixedHeader on the frame.
ReadSubackHeader ==
    /\ codec.kind = "suback" /\ codec.pc = "decode"
    /\ codec' = [codec EXCEPT !.header = ReadRemainingLen(codec.bytes, 2, 1, 0),
                              !.pc = "done"]
    /\ UNCHANGED <<broker, queue, race, startLog>>

NextSuback == EncodeSuback \/ ReadSubackHeader

SpecSuback == InitSuback /\ [][NextSuback]_vars

-----------------------------------------------------------------------------
(* The BboltStore message queue. Client IDs and keys are byte strings: bbolt *)
(* keeps the keys of a bucket in byte order.                                 *)

MaxCalls == 4

\* fmt.Sprintf("%d", n) as bytes
RECURSIVE Decimal(_)
Decimal(n) == IF n < 10 THEN <<48 + n>> ELSE Decimal(n \div 10) \o <<48 + (n % 10)>>

\* EnqueueMessage: queueKey := fmt.Sprintf("%s:%d", clientID, len(msg.Payload))
QueueKey(clientID, msg) == clientID \o <<58>> \o Decimal(Len(msg.Payload))

\* json.Marshal and json.Unmarshal of a Message: the payload travels as a
\* base64 string, the other fields as they are.
Marshal(msg) ==
    [json |-> <<msg.Topic, [base64 |-> msg.Payload], msg.QoS, msg.Retain>>]
Unmarshal(v) ==
    [Topic |-> v.json[1], Payload |-> v.json[2].base64, QoS |-> v.json[3],
     Retain |-> v.json[4]]

\* bytes.Compare(k1, k2) < 0: the order of a bucket's keys
RECURSIVE KeyLess(_, _)
KeyLess(k1, k2) ==
    IF k2 = <<>> THEN FALSE
    ELSE IF k1 = <<>> THEN TRUE
    ELSE IF k1[1] # k2[1] THEN k1[1] < k2[1]
    ELSE KeyLess(Tail(k1), Tail(k2))

\* DequeueMessages' loop condition: len(k) >= len(prefix) && k[:len(prefix)] == prefix
HasPrefix(k, prefix) ==
    Len(k) >= Len(prefix) /\ SubSeq(k, 1, Len(prefix)) = prefix

\* The keys the cursor visits, from Seek(prefix) on, in key order: the keys
\* with the prefix are contiguous in that order.
RECURSIVE SortKeys(_)
SortKeys(keys) ==
    IF keys = {} THEN <<>>
    ELSE LET k == CHOOSE x \in keys : \A y \in keys \ {x} : KeyLess(x, y)
         IN  <<k>> \o SortKeys(keys \ {k})

Visited(bucket, clientID) ==
    SortKeys({k \in DOMAIN bucket : HasPrefix(k, clientID \o <<58>>)})

StoreIDs == {<<97>>, <<97, 58, 98>>}
StoreMessages ==
    {[Topic |-> <<116>>, Payload |-> pl, QoS |-> 1, Retain |-> FALSE] :
        pl \in {<<1>>, <<2>>, <<1, 2>>, <<1, 2, 3, 4, 5, 6, 7, 8, 9, 10>>}}

NoDequeue == [id |-> <<>>, ret |-> <<>>, pending |-> <<>>, before |-> EmptyMap,
              after |-> EmptyMap]

\* NewBboltStore: an empty messages bucket.
InitStore ==
    /\ InitBroker
    /\ codec = NoCall /\ race = NoCall /\ startLog = <<>>
    /\ queue = [kind |-> "store",
                bucket |-> EmptyMap,
                owner |-> EmptyMap,
                pending |-> [id \in StoreIDs |-> <<>>],
                calls |-> 0,
                last |-> NoDequeue]

EnqueueMessage(clientID, msg) ==
    /\ queue.kind = "store" /\ queue.calls < MaxCalls
    /\ LET queueKey == QueueKey(clientID, msg) IN
       queue' = [queue EXCEPT
                    !.bucket = MapPut(@, queueKey, Marshal(msg)),
                    !.owner = MapPut(@, queueKey, clientID),
                    !.pending[clientID] = Append(@, msg),
                    !.calls = @ + 1]
    /\ UNCHANGED <<broker, codec, race, startLog>>

DequeueMessages(clientID) ==
    /\ queue.kind = "store" /\ queue.calls < MaxCalls
    /\ LET keys == Visited(queue.bucket, clientID)
           left == [k \in DOMAIN queue.bucket \ {keys[i] : i \in 1..Len(keys)} |->
                       queue.bucket[k]]
       IN  queue' = [queue EXCEPT
                        !.bucket = left,
                        !.pending[clientID] = <<>>,
                        !.calls = @ + 1,
                        !.last = [id |-> clientID,
                                  ret |-> [i \in 1..Len(keys) |->
                                             Unmarshal(queue.bucket[keys[i]])],
                                  pending |-> queue.pending[clientID],
                                  before |-> queue.bucket,
                                  after |-> left]]
    /\ UNCHANGED <<broker, codec, race, startLog>>

NextStore ==
    \E id \in StoreIDs :
        \/ \E msg \in StoreMessages : EnqueueMessage(id, msg)
        \/ DequeueMessages(id)

SpecStore == InitStore /\ [][NextStore]_vars

-----------------------------------------------------------------------------
(* Handlers run statement by statement: each is the sequence of its lock    *)
(* operations and of its reads and writes of shared state. Session y is     *)
(* connected; a CONNECT of x, a SUBSCRIBE and an UNSUBSCRIBE of y, a         *)
(* retain=1 PUBLISH whose topic y's filter matches, and Stop run together.   *)

Op(op, arg) == [op |-> op, arg |-> arg]

\* The mutex of the Client with this ID.
ClientMu(id) == "client.mu " \o id

GlobalLocks == {"s.mu", "s.retainedMsgsMu"}
Locks == GlobalLocks \cup {ClientMu(id) : id \in ClientIDs}

\* handleConnect, "Store client"
ConnectProgram ==
    <<Op("Lock", "s.mu"), Op("Locked", "s.mu"), Op("register", "x"), Op("Unlock", "s.mu")>>

\* (mutant) handleSubscribe scanning the retained store inside client.mu
SubscribeProgramNested ==
    <<Op("Lock", ClientMu("y")), Op("Locked", ClientMu("y")), Op("subscribe", "y"),
      Op("RLock", "s.retainedMsgsMu"), Op("scan", "y"), Op("RUnlock", "s.retainedMsgsMu"),
      Op("Unlock", ClientMu("y"))>>

\* handleSubscribe: "Store subscriptions", then "Deliver retained messages"
\* for the filters of the packet
SubscribeProgram ==
    <<Op("Lock", ClientMu("y")), Op("Locked", ClientMu("y")), Op("subscribe", "y"),
      Op("Unlock", ClientMu("y")),
      Op("RLock", "s.retainedMsgsMu"), Op("scan", "y"), Op("RUnlock", "s.retainedMsgsMu")>>

\* handleUnsubscribe, "Remove subscriptions"
UnsubscribeProgram ==
    <<Op("Lock", ClientMu("y")), Op("Locked", ClientMu("y")), Op("unsubscribe", "y"),
      Op("Unlock", ClientMu("y"))>>

\* routeMessage's loop body for one Client of s.clients
RouteVisit(id) ==
    <<Op("visit", id), Op("RLock", ClientMu(id)), Op("match", id), Op("RUnlock", ClientMu(id))>>

\* (mutant) routeMessage before the retained message is stored
PublishProgramRouteFirst(order) ==
    <<Op("RLock", "s.mu")>> \o RouteVisit(order[1]) \o RouteVisit(order[2])
        \o <<Op("RUnlock", "s.mu")>>
        \o <<Op("Lock", "s.retainedMsgsMu"), Op("Locked", "s.retainedMsgsMu"),
             Op("store", "y"), Op("Unlock", "s.retainedMsgsMu")>>

\* handlePublish: "Handle retained messages", then routeMessage, which visits
\* the Clients of s.clients in the order the map iteration gives.
PublishProgram(order) ==
    <<Op("Lock", "s.retainedMsgsMu"), Op("Locked", "s.retainedMsgsMu"),
      Op("store", "y"), Op("Unlock", "s.retainedMsgsMu")>>
        \o <<Op("RLock", "s.mu")>> \o RouteVisit(order[1]) \o RouteVisit(order[2])
        \o <<Op("RUnlock", "s.mu")>>

\* Stop
StopProgram ==
    <<Op("Lock", "s.mu"), Op("Locked", "s.mu"), Op("close", "y"), Op("Unlock", "s.mu")>>

Program(t) ==
    CASE t = "connect" -> ConnectProgram
      [] t = "subscribe" -> SubscribeProgram
      [] t = "unsubscribe" -> UnsubscribeProgram
      [] t = "publish" -> PublishProgram(race.order)
      [] t = "stop" -> StopProgram

Threads == {"connect", "subscribe", "unsubscribe", "publish", "stop"}
Orders == {<<"x", "y">>, <<"y", "x">>}

Finished(t) == race.pc[t] > Len(Program(t))
Cur(t) == Program(t)[race.pc[t]]
At(t, op) == race.kind = "race" /\ t \in race.threads /\ ~Finished(t) /\ Cur(t).op = op

\* The locks a thread holds or has asked for.
Holds(t) == {l \in Locks : race.lock[l].w = t \/ t \in race.lock[l].r}

\* The thread asks for a broker-global lock while it holds a Client's lock.
Inverts(t) == Cur(t).arg \in GlobalLocks /\ Holds(t) \ GlobalLocks # {}

InitRaceWith(threads) ==
    /\ InitBroker
    /\ codec = NoCall /\ queue = NoCall /\ startLog = <<>>
    /\ \E order \in Orders :
           race = [kind |-> "race", threads |-> threads, order |-> order,
                   pc |-> [t \in Threads |-> 1],
                   lock |-> [l \in Locks |-> [w |-> "none", r |-> {}]],
                   registered |-> {"y"}, subscribed |-> FALSE, retained |-> FALSE,
                   open |-> TRUE, started |-> {}, delivered |-> {}, failed |-> {},
                   inverted |-> FALSE]

\* sync.RWMutex.Lock: the writer first shuts out new readers and writers ...
LockBegin(t) ==
    /\ At(t, "Lock")
    /\ race.lock[Cur(t).arg].w = "none"
    /\ race' = [race EXCEPT !.lock[Cur(t).arg].w = t, !.pc[t] = @ + 1,
                            !.inverted = @ \/ Inverts(t)]
    /\ UNCHANGED <<broker, codec, queue, startLog>>

\* ... and has the lock once the readers that hold it have left.
LockEnter(t) ==
    /\ At(t, "Locked")
    /\ race.lock[Cur(t).arg].r = {}
    /\ race' = [race EXCEPT !.pc[t] = @ + 1]
    /\ UNCHANGED <<broker, codec, queue, startLog>>

Unlock(t) ==
    /\ At(t, "Unlock")
    /\ race' = [race EXCEPT !.lock[Cur(t).arg].w = "none", !.pc[t] = @ + 1]
    /\ UNCHANGED <<broker, codec, queue, startLog>>

\* sync.RWMutex.RLock waits while a writer holds the lock or waits for it.
RLock(t) ==
    /\ At(t, "RLock")
    /\ race.lock[Cur(t).arg].w = "none"
    /\ race' = [race EXCEPT !.lock[Cur(t).arg].r = @ \cup {t}, !.pc[t] = @ + 1,
                            !.inverted = @ \/ Inverts(t)]
    /\ UNCHANGED <<broker, codec, queue, startLog>>

RUnlock(t) ==
    /\ At(t, "RUnlock")
    /\ race' = [race EXCEPT !.lock[Cur(t).arg].r = @ \ {t}, !.pc[t] = @ + 1]
    /\ UNCHANGED <<broker, codec, queue, startLog>>

\* `for _, client := range s.clients`: a Client that is not in the map is not visited.
Visit(t) ==
    /\ At(t, "visit")
    /\ race' = [race EXCEPT !.pc[t] = IF Cur(t).arg \in race.registered THEN @ + 1 ELSE @ + 4]
    /\ UNCHANGED <<broker, codec, queue, startLog>>

\* A statement that reads or writes shared state under the lock taken before it.
Statement(t) ==
    /\ race.kind = "race" /\ t \in race.threads /\ ~Finished(t)
    /\ Cur(t).op \in {"register", "subscribe", "unsubscribe", "store", "scan", "match", "close"}
    /\ race' = [race EXCEPT
           !.pc[t] = @ + 1,
           !.registered = IF Cur(t).op = "register" THEN @ \cup {Cur(t).arg} ELSE @,
           !.subscribed = IF Cur(t).op = "subscribe" THEN TRUE
                          ELSE IF Cur(t).op = "unsubscribe" THEN FALSE ELSE @,
           !.retained = IF Cur(t).op = "store" THEN TRUE ELSE @,
           !.open = IF Cur(t).op = "close" THEN FALSE ELSE @,
           !.started = IF Cur(t).op = "scan" /\ race.retained
                          THEN @ \cup {"retained"}
                       ELSE IF Cur(t).op = "match" /\ Cur(t).arg = "y" /\ race.subscribed
                          THEN @ \cup {"live"}
                       ELSE @]
    /\ UNCHANGED <<broker, codec, queue, startLog>>

\* A deliverMessage goroutine started by `go` writes its frame to y's socket.
DeliverStarted(d) ==
    /\ race.kind = "race"
    /\ d \in race.started
    /\ race' = [race EXCEPT !.started = @ \ {d},
                            !.delivered = IF race.open THEN @ \cup {d} ELSE @,
                            !.failed = IF race.open THEN @ ELSE @ \cup {d}]
    /\ UNCHANGED <<broker, codec, queue, startLog>>

NextRace ==
    \/ \E t \in Threads :
        \/ LockBegin(t)
        \/ LockEnter(t)
        \/ Unlock(t)
        \/ RLock(t)
        \/ RUnlock(t)
        \/ Visit(t)
        \/ Statement(t)
    \/ \E d \in {"live", "retained"} : DeliverStarted(d)

\* All five run together.
InitLocks == InitRaceWith(Threads)
SpecLocks == InitLocks /\ [][NextRace]_vars

\* The PUBLISH and the SUBSCRIBE alone.
InitRace == InitRaceWith({"publish", "subscribe"})
SpecRace == InitRace /\ [][NextRace]_vars

\* Time: sessions with keep-alive 0 and 2, a subscriber at QoS 1 that may
\* stay silent, answer (PUBACK is read by the default branch) or send
\* PINGREQ, and QoS 1 publishes.  The Go scheduler runs every started
\* goroutine: a deliverMessage that was started is run (weak fairness).  When
\* a client sends its next packet, or whether it ever closes its socket, is
\* up to the client: no fairness.
LivePublishes == {PublishWire(TopicAB, PayloadP, 1, 1, FALSE, FALSE)}
LiveSubscribes == {SubscribeWire(1, <<Sub(FilterAPlus, 1)>>)}

NextLive ==
    \E c \in Conn :
        \/ Accept(c)
        \/ ReadError(c)
        \/ \E w \in RouteConnects : RecvConnect(c, w)
        \/ \E w \in LivePublishes : RecvPublish(c, w)
        \/ \E w \in LiveSubscribes : RecvSubscribe(c, w)
        \/ RecvPingreq(c)
        \/ RecvOther(c)
        \/ \E t \in tasks : Deliver(t)

SpecLive == Init /\ [][NextLive]_vars /\ WF_vars(\E t \in tasks : Deliver(t))

-----------------------------------------------------------------------------
(* What was delivered, read from the history *)

\* The positions of socket c's PUBLISH frames of packet i written for the
\* Client with ID id, started by via (0: routeMessage, j: the j-th SUBSCRIBE).
FramePositions(c, i, id, via) ==
    {k \in 1..Len(out[c]) :
        /\ out[c][k].type = "PUBLISH"
        /\ out[c][k].idx = i
        /\ out[c][k].to = id
        /\ out[c][k].via = via}

RECURSIVE SumOver(_, _)
SumOver(S, n) ==
    IF S = {} THEN 0
    ELSE LET c == CHOOSE d \in S : TRUE IN n[c] + SumOver(S \ {c}, n)

FramesWritten(i, id, via) ==
    SumOver(Conn, [c \in Conn |-> Cardinality(FramePositions(c, i, id, via))])

\* Goroutines of that delivery still to run, and those whose write failed.
Pending(i, id, via) == {t \in tasks : t.pub.idx = i /\ t.to = id /\ t.via = via}
WriteFailed(i, id, via) == {t \in failed : t.pub.idx = i /\ t.to = id /\ t.via = via}

Deliveries(i, id, via) ==
    FramesWritten(i, id, via) + Cardinality(Pending(i, id, via))
        + Cardinality(WriteFailed(i, id, via))

\* The Client registered under id when publish i was routed had a filter
\* matching its topic.
MatchedAt(i, id) ==
    /\ pubLog[i].reg[id] # NoConn
    /\ \E f \in pubLog[i].flt[id] : topicMatch(f, pubLog[i].wire.Topic)

-----------------------------------------------------------------------------
\* C1: every PUBLISH decoded from a connected client is delivered exactly
\* once to each registered session with at least one filter matching its
\* topic, however many of its filters match, and not at all to a session
\* without one; a delivery is one write of a PUBLISH frame with the topic and
\* payload of the publish, on the socket of that session (the write of a
\* closed socket fails).
C1_OneFramePerMatchingSession ==
    \A i \in 1..Len(pubLog) : \A id \in ClientIDs :
        /\ Deliveries(i, id, 0) = IF MatchedAt(i, id) THEN 1 ELSE 0
        /\ \A t \in Pending(i, id, 0) \cup WriteFailed(i, id, 0) :
               t.conn = pubLog[i].reg[id]
        /\ \A t \in WriteFailed(i, id, 0) : connState[t.conn] = "closed"
        /\ \A c \in Conn : \A k \in FramePositions(c, i, id, 0) :
               /\ c = pubLog[i].reg[id]
               /\ out[c][k].Topic = pubLog[i].wire.Topic
               /\ out[c][k].Payload = pubLog[i].wire.Payload

\* A session with two matching filters has its one frame on its socket while
\* another registered session, without a matching filter, has none.
C1_Witness ==
    \E i \in 1..Len(pubLog) : \E id \in ClientIDs : \E other \in ClientIDs \ {id} :
        /\ Cardinality({f \in pubLog[i].flt[id] : topicMatch(f, pubLog[i].wire.Topic)}) >= 2
        /\ FramesWritten(i, id, 0) = 1
        /\ pubLog[i].reg[other] # NoConn
        /\ ~MatchedAt(i, other)
        /\ Deliveries(i, other, 0) = 0

\* C2: PUBLISH frames of one publisher on one topic reach one subscriber's
\* socket in the order the publisher sent them.
C2_PublishOrder ==
    \A c \in Conn : \A a, b \in 1..Len(out[c]) :
        ( /\ a < b
          /\ out[c][a].type = "PUBLISH" /\ out[c][b].type = "PUBLISH"
          /\ out[c][a].via = 0 /\ out[c][b].via = 0
          /\ out[c][a].to = out[c][b].to
          /\ out[c][a].Topic = out[c][b].Topic
          /\ pubLog[out[c][a].idx].conn = pubLog[out[c][b].idx].conn )
        => out[c][a].idx < out[c][b].idx

\* C3: the PUBACK frames on a socket are, in order, one for each QoS 1
\* PUBLISH decoded from that socket, with the packet ID of that PUBLISH,
\* whether or not a subscriber matched; a QoS 0 PUBLISH gets none.
IsPuback(f) == f.type = "PUBACK"
Acked(c) ==
    LET acks == SelectSeq(out[c], IsPuback)
    IN  [k \in 1..Len(acks) |-> <<acks[k].idx, acks[k].PacketID>>]
QoS1From(c) ==
    LET IsQoS1(e) == e.conn = c /\ e.wire.QoS = 1
        sent == SelectSeq(pubLog, IsQoS1)
    IN  [k \in 1..Len(sent) |-> <<sent[k].pub.idx, sent[k].wire.PacketID>>]

C3_OnePubackPerQoS1Publish ==
    \A c \in Conn : Acked(c) = QoS1From(c)

\* A QoS 1 PUBLISH that matched no subscriber is acknowledged, next to a
\* QoS 0 PUBLISH of the same socket that is not.
C3_Witness ==
    \E c \in Conn : \E i, k \in 1..Len(pubLog) :
        /\ pubLog[i].conn = c /\ pubLog[i].wire.QoS = 1
        /\ \A id \in ClientIDs : ~MatchedAt(i, id)
        /\ pubLog[k].conn = c /\ pubLog[k].wire.QoS = 0
        /\ Acked(c) = <<<<i, pubLog[i].wire.PacketID>>>>

-----------------------------------------------------------------------------
(* Retained messages *)

\* The last retain=1 PUBLISH on topic among the first n decoded (0: none).
LastRetain(topic, n) ==
    LET S == {i \in 1..n : pubLog[i].wire.Retain /\ pubLog[i].wire.Topic = topic}
    IN  IF S = {} THEN 0 ELSE CHOOSE i \in S : \A k \in S : k <= i

PublishedTopics == {pubLog[i].wire.Topic : i \in 1..Len(pubLog)}

\* C4: the retained store holds, for each topic, the payload of the most
\* recent retain=1 PUBLISH on exactly that topic if that payload was not
\* empty, and nothing otherwise; retain=0 publishes do not count.
C4_RetainedIsLastRetainPublish ==
    \A t \in PublishedTopics \cup DOMAIN retainedMsgs :
        LET i == LastRetain(t, Len(pubLog))
        IN  IF i # 0 /\ pubLog[i].wire.Payload # <<>>
            THEN /\ t \in DOMAIN retainedMsgs
                 /\ retainedMsgs[t].idx = i
                 /\ retainedMsgs[t].Topic = t
                 /\ retainedMsgs[t].Payload = pubLog[i].wire.Payload
            ELSE t \notin DOMAIN retainedMsgs

\* A retained payload that replaced an earlier one and was followed by a
\* retain=0 PUBLISH of another payload on the same topic is the one stored.
C4_Witness ==
    \E i, j, k \in 1..Len(pubLog) :
        /\ i < j /\ j < k
        /\ pubLog[i].wire.Topic = pubLog[j].wire.Topic
        /\ pubLog[j].wire.Topic = pubLog[k].wire.Topic
        /\ pubLog[i].wire.Retain /\ pubLog[j].wire.Retain /\ ~pubLog[k].wire.Retain
        /\ pubLog[i].wire.Payload # <<>>
        /\ pubLog[j].wire.Payload \notin {<<>>, pubLog[i].wire.Payload}
        /\ pubLog[k].wire.Payload \notin {<<>>, pubLog[j].wire.Payload}
        /\ retainedMsgs[pubLog[j].wire.Topic].Payload = pubLog[j].wire.Payload

\* The deliveries the j-th SUBSCRIBE started that carry topic.
RetainedFrames(j, topic) ==
    {k \in 1..Len(out[subLog[j].conn]) :
        /\ out[subLog[j].conn][k].type = "PUBLISH"
        /\ out[subLog[j].conn][k].via = j
        /\ out[subLog[j].conn][k].Topic = topic}
RetainedPending(j, topic) == {t \in tasks \cup failed : t.via = j /\ t.pub.Topic = topic}
SubscribeMatches(j, topic) ==
    \E k \in 1..Len(subLog[j].Topics) : topicMatch(subLog[j].Topics[k].Topic, topic)

\* C5: a SUBSCRIBE starts one delivery for each retained message in the
\* store at that time whose topic matches at least one of its filters, and
\* none for any other topic; the frame is written to the subscriber's socket
\* with the retain flag set and the stored payload.  A topic whose last
\* retain=1 PUBLISH before the SUBSCRIBE had an empty payload is not delivered.
C5_RetainedDeliveredOnSubscribe ==
    \A j \in 1..Len(subLog) :
        /\ \A t \in tasks \cup failed : t.via = j => t.conn = subLog[j].conn
        /\ \A c \in Conn \ {subLog[j].conn} : \A k \in 1..Len(out[c]) : out[c][k].via # j
        /\ \A t \in PublishedTopics :
            LET held == t \in DOMAIN subLog[j].store
                n == Cardinality(RetainedFrames(j, t)) + Cardinality(RetainedPending(j, t))
                last == LastRetain(t, subLog[j].npub)
            IN  /\ n = IF held /\ SubscribeMatches(j, t) THEN 1 ELSE 0
                /\ (last # 0 /\ pubLog[last].wire.Payload = <<>>) => n = 0
                /\ \A k \in RetainedFrames(j, t) :
                       /\ out[subLog[j].conn][k].Retain
                       /\ out[subLog[j].conn][k].Payload = subLog[j].store[t].Payload

\* A SUBSCRIBE with two filters matching a retained topic got that message
\* once, with the retain flag.
C5_Witness ==
    \E j \in 1..Len(subLog) : \E t \in DOMAIN subLog[j].store :
        /\ Cardinality({k \in 1..Len(subLog[j].Topics) :
                           topicMatch(subLog[j].Topics[k].Topic, t)}) >= 2
        /\ Cardinality(RetainedFrames(j, t)) = 1
        /\ \A k \in RetainedFrames(j, t) : out[subLog[j].conn][k].Retain

\* C6: a retained message delivered because of a SUBSCRIBE is on the socket
\* after the SUBACK of that SUBSCRIBE, and its delivery does not start
\* before the SUBACK was written.
SubackPositions(c, j) ==
    {m \in 1..Len(out[c]) : out[c][m].type = "SUBACK" /\ out[c][m].idx = j}

C6_SubackBeforeRetained ==
    /\ \A c \in Conn : \A k \in 1..Len(out[c]) :
           (out[c][k].type = "PUBLISH" /\ out[c][k].via # 0)
               => \E m \in SubackPositions(c, out[c][k].via) : m < k
    /\ \A t \in tasks : t.via # 0 => SubackPositions(t.conn, t.via) # {}

\* A SUBACK followed on the socket by a retained message of its SUBSCRIBE.
C6_Witness ==
    \E c \in Conn : \E k \in 1..Len(out[c]) :
        /\ out[c][k].type = "PUBLISH" /\ out[c][k].via # 0
        /\ \E m \in SubackPositions(c, out[c][k].via) : m < k

-----------------------------------------------------------------------------
(* Sessions *)

\* C7: a socket whose registry entry was replaced by a CONNECT with the same
\* client ID on another socket has been closed by the time the CONNACK of
\* that CONNECT is written (the registry, a map, then holds the new session
\* alone under that ID).
C7_EvictedSocketClosed ==
    \A c \in evicted : connState[c] = "closed"

\* C8: once the handler of a socket has returned (DISCONNECT, read error,
\* EOF) the sessions map holds no Client of that socket, and a PUBLISH
\* routed afterwards starts no delivery to it.
C8_ClosedSessionRemoved ==
    /\ \A c \in Conn : connState[c] = "closed" => \A id \in ClientIDs : clients[id] # c
    /\ \A i \in 1..Len(pubLog) : \A id \in ClientIDs :
           (pubLog[i].reg[id] # NoConn /\ pubLog[i].state[pubLog[i].reg[id]] = "closed")
               => Deliveries(i, id, 0) = 0

\* C9: a socket that sent a packet other than CONNECT before its CONNECT is
\* closed and nothing was written to it.
C9_EarlyPacketCloses ==
    \A c \in early : connState[c] = "closed" /\ out[c] = <<>>

\* C10: a socket that sent a CONNECT after its CONNECT had been accepted is
\* closed, carries one CONNACK and registered one session.
IsConnack(f) == f.type = "CONNACK"
C10_SecondConnectCloses ==
    \A c \in again :
        /\ connState[c] = "closed"
        /\ Len(SelectSeq(out[c], IsConnack)) <= 1
        /\ Cardinality({id \in ClientIDs : clients[id] = c}) <= 1

-----------------------------------------------------------------------------
(* Order of the frames on one socket *)

\* C11: the first frame written to a socket is the CONNACK; no PINGRESP,
\* SUBACK, UNSUBACK, PUBACK or PUBLISH frame is on a socket before it.
C11_ConnackFirst ==
    \A c \in Conn : out[c] # <<>> => out[c][1].type = "CONNACK"

-----------------------------------------------------------------------------
(* Quality of service *)

\* QoSConfig.MaxQoS as SetDefaults leaves it.
MaxQoS == 1

\* A filter is well formed when '#' stands only in its last level and a
\* level that holds '+' or '#' holds nothing else.
HasChar(level, ch) == \E k \in 1..Len(level) : level[k] = ch
ValidFilter(f) ==
    LET levels == splitTopic(f)
    IN  \A k \in 1..Len(levels) :
            /\ HasChar(levels[k], "#") => (levels[k] = <<"#">> /\ k = Len(levels))
            /\ HasChar(levels[k], "+") => levels[k] = <<"+">>

\* The SUBACK frames of the j-th SUBSCRIBE.
Subacks(j) ==
    {out[subLog[j].conn][m] : m \in SubackPositions(subLog[j].conn, j)}

\* The entry of the j-th SUBSCRIBE that decides what is stored for filter f:
\* the last one that names it.
LastEntry(j, i) ==
    \A k \in (i + 1)..Len(subLog[j].Topics) :
        subLog[j].Topics[k].Topic # subLog[j].Topics[i].Topic

\* C12: the SUBACK of a SUBSCRIBE carries one return code per requested
\* filter, in request order; the code of a well-formed filter is
\* min(requested QoS, max_qos, 1), and that value is the granted QoS stored
\* for the subscription.
C12_GrantedQoS ==
    \A j \in 1..Len(subLog) :
        /\ Cardinality(SubackPositions(subLog[j].conn, j)) = 1
        /\ \A f \in Subacks(j) :
            /\ Len(f.ReturnCodes) = Len(subLog[j].Topics)
            /\ \A i \in 1..Len(subLog[j].Topics) :
                   ValidFilter(subLog[j].Topics[i].Topic) =>
                       /\ f.ReturnCodes[i] = Min(Min(subLog[j].Topics[i].QoS, MaxQoS), 1)
                       /\ LastEntry(j, i) =>
                              /\ subLog[j].Topics[i].Topic \in DOMAIN subLog[j].granted
                              /\ subLog[j].granted[subLog[j].Topics[i].Topic]
                                     = f.ReturnCodes[i]

\* The largest granted QoS among the filters that matched publish i in the
\* Client registered under id when it was routed.
MaxGranted(i, id) ==
    LET g == pubLog[i].granted[id]
        hits == {f \in DOMAIN g : topicMatch(f, pubLog[i].wire.Topic)}
    IN  CHOOSE q \in {g[f] : f \in hits} : \A f \in hits : g[f] <= q

\* C13: a routed PUBLISH frame carries QoS min(publish QoS, the largest
\* granted QoS among the filters of the session that match the topic),
\* whichever of those filters the iteration over the subscriptions meets first.
C13_MaxGrantedQoS ==
    \A c \in Conn : \A k \in 1..Len(out[c]) :
        (out[c][k].type = "PUBLISH" /\ out[c][k].via = 0)
            => out[c][k].QoS = Min(pubLog[out[c][k].idx].wire.QoS,
                                   MaxGranted(out[c][k].idx, out[c][k].to))

\* C14: no PUBLISH frame written to a subscriber carries a QoS above max_qos,
\* whatever QoS the subscription asked for and the inbound PUBLISH carried.
C14_DeliveredQoSAtMostMax ==
    \A c \in Conn : \A k \in 1..Len(out[c]) :
        out[c][k].type = "PUBLISH" => out[c][k].QoS <= MaxQoS

\* C15: a retained message delivered because of a SUBSCRIBE is written with
\* dup=0 and at QoS min(stored QoS, granted QoS of a matching entry of that
\* SUBSCRIBE), whatever DUP flag the retain=1 PUBLISH carried.
C15_RetainedFreshFrame ==
    \A j \in 1..Len(subLog) : \A t \in DOMAIN subLog[j].store :
        \A k \in RetainedFrames(j, t) :
            LET f == out[subLog[j].conn][k]
            IN  /\ ~f.Dup
                /\ \E i \in 1..Len(subLog[j].Topics) :
                       /\ topicMatch(subLog[j].Topics[i].Topic, t)
                       /\ f.QoS = Min(subLog[j].store[t].QoS,
                                      subLog[j].granted[subLog[j].Topics[i].Topic])

\* C16: the SUBACK of a SUBSCRIBE is written and carries 0x80 (128) for each entry
\* whose filter is not well formed, and that filter is not stored; the
\* well-formed entries of the same SUBSCRIBE are granted and stored.
C16_InvalidFilterRefused ==
    \A j \in 1..Len(subLog) :
        /\ Cardinality(SubackPositions(subLog[j].conn, j)) = 1
        /\ \A f \in Subacks(j) : \A i \in 1..Len(subLog[j].Topics) :
               IF ValidFilter(subLog[j].Topics[i].Topic)
               THEN /\ f.ReturnCodes[i] # 128
                    /\ subLog[j].Topics[i].Topic \in DOMAIN subLog[j].granted
               ELSE /\ f.ReturnCodes[i] = 128
                    /\ subLog[j].Topics[i].Topic \notin DOMAIN subLog[j].granted

-----------------------------------------------------------------------------
(* UNSUBSCRIBE *)

\* The filters an UNSUBSCRIBE lists.
Listed(wire) == {wire.Topics[i] : i \in 1..Len(wire.Topics)}

\* The packet IDs of the UNSUBACK frames on socket c, and of the UNSUBSCRIBE
\* packets decoded from it, in order.
IsUnsuback(f) == f.type = "UNSUBACK"
Unsubacked(c) ==
    LET acks == SelectSeq(out[c], IsUnsuback)
    IN  [k \in 1..Len(acks) |-> acks[k].PacketID]
UnsubscribesFrom(c) ==
    LET From(e) == e.conn = c
        sent == SelectSeq(unsubLog, From)
    IN  [k \in 1..Len(sent) |-> sent[k].wire.PacketID]

\* C17: an UNSUBSCRIBE removes exactly the filters it lists from the
\* subscriptions of the sending session, leaves the other filters of that
\* session (with their QoS) and the subscriptions of every other session as
\* they were, and is answered with one UNSUBACK of the same packet ID,
\* whether or not any listed filter was subscribed.
C17_UnsubscribeEffect ==
    /\ \A u \in 1..Len(unsubLog) :
        LET e == unsubLog[u]
            own == <<e.conn, e.id>>
        IN  /\ DOMAIN e.after[own] = DOMAIN e.before[own] \ Listed(e.wire)
            /\ \A f \in DOMAIN e.after[own] : e.after[own][f] = e.before[own][f]
            /\ \A k \in (Conn \X ClientIDs) \ {own} : e.after[k] = e.before[k]
    /\ \A c \in Conn : Unsubacked(c) = UnsubscribesFrom(c)

\* A session with two filters unsubscribed one of them and kept the other,
\* then unsubscribed the same filter again, now not subscribed; each
\* UNSUBSCRIBE has its UNSUBACK.
C17_Witness ==
    \E u, v \in 1..Len(unsubLog) :
        /\ u < v
        /\ unsubLog[u].conn = unsubLog[v].conn /\ unsubLog[u].id = unsubLog[v].id
        /\ LET e == unsubLog[u]
               own == <<e.conn, e.id>>
           IN  /\ Listed(e.wire) \subseteq DOMAIN e.before[own]
               /\ DOMAIN e.after[own] # {}
        /\ LET e == unsubLog[v]
               own == <<e.conn, e.id>>
           IN  /\ Listed(e.wire) \cap DOMAIN e.before[own] = {}
               /\ DOMAIN e.after[own] # {}
        /\ Len(Unsubacked(unsubLog[u].conn)) = 2

-----------------------------------------------------------------------------
(* Packet IDs and acknowledgements of delivered frames *)

\* The positions of the QoS 1 PUBLISH frames written to socket c for the
\* session id.  No subscriber acknowledges a frame under SpecRoute, whose
\* clients send no PUBACK: all of them are unacknowledged.
QoS1Frames(c, id) ==
    {k \in 1..Len(out[c]) :
        out[c][k].type = "PUBLISH" /\ out[c][k].QoS = 1 /\ out[c][k].to = id}

\* C18: the unacknowledged QoS 1 PUBLISH frames written to one subscriber
\* session carry non-zero, pairwise distinct packet IDs.
C18_DistinctPacketIDs ==
    \A c \in Conn : \A id \in ClientIDs : \A a, b \in QoS1Frames(c, id) :
        /\ out[c][a].PacketID # 0
        /\ a # b => out[c][a].PacketID # out[c][b].PacketID

\* QoSConfig.MaxRetries as SetDefaults leaves it.
MaxRetries == 3

\* Socket c carries at position k a QoS 1 PUBLISH frame that is not a
\* re-transmission, and at a later position a frame of the same publish with
\* dup=1.
FirstSend(c, k) ==
    out[c][k].type = "PUBLISH" /\ out[c][k].QoS = 1 /\ ~out[c][k].Dup
Resends(c, k) ==
    {b \in (k + 1)..Len(out[c]) :
        /\ out[c][b].type = "PUBLISH"
        /\ out[c][b].idx = out[c][k].idx
        /\ out[c][b].to = out[c][k].to
        /\ out[c][b].Dup}

\* A QoS 1 frame is on the open socket c, n packets were read so far and none
\* of the frames was sent again.
AwaitsPuback(c, n) ==
    /\ connState[c] = "open"
    /\ nPackets = n
    /\ \E k \in 1..Len(out[c]) : FirstSend(c, k) /\ Resends(c, k) = {}

\* C19: a QoS 1 PUBLISH frame written to a subscriber that sends nothing
\* afterwards (no PUBACK, no other packet arrives) and keeps its socket open
\* is written again with dup=1; no frame is written again more than
\* max_retries times.
C19_Retransmission ==
    /\ \A c \in Conn : \A n \in 0..MaxPackets :
           AwaitsPuback(c, n) ~>
               (\/ connState[c] # "open"
                \/ nPackets # n
                \/ \E k \in 1..Len(out[c]) : FirstSend(c, k) /\ Resends(c, k) # {})
    /\ [](\A c \in Conn : \A k \in 1..Len(out[c]) :
              FirstSend(c, k) => Cardinality(Resends(c, k)) <= MaxRetries)

\* A session with keep-alive K > 0 is connected on the open socket c and n
\* packets were read so far.
KeepAliveRunning(c, n) ==
    /\ connState[c] = "open"
    /\ client[c] # NoClient
    /\ keepAlive[c] > 0
    /\ nPackets = n

\* C20: the socket of a session that connected with keep-alive K > 0 is
\* closed by the broker when no packet arrives any more (time passes beyond
\* 1.5 x K with nothing read); a packet that arrives restarts the wait.
C20_KeepAliveTimeout ==
    \A c \in Conn : \A n \in 0..MaxPackets :
        KeepAliveRunning(c, n) ~> (connState[c] # "open" \/ nPackets # n)

-----------------------------------------------------------------------------
(* PINGREQ *)

\* The PINGRESP frames on socket c, and the PINGREQ packets read from it.
IsPingresp(f) == f.type = "PINGRESP"
PingsFrom(c) == {p \in 1..Len(pingLog) : pingLog[p].conn = c}

\* C21: each PINGREQ read from a connected session is answered with one
\* PINGRESP appended to the frames of its own socket; the step writes nothing
\* to any other socket, starts no delivery, closes nothing and leaves the
\* sessions map, every subscription and the retained store as they were.
\* The PINGRESP frames on a socket are as many as the PINGREQ packets read
\* from it.
C21_PingreqAnswered ==
    /\ \A p \in 1..Len(pingLog) :
        LET e == pingLog[p] IN
        e.id # NoClient =>
            /\ e.after.out[e.conn] = Append(e.before.out[e.conn], PingrespFrame)
            /\ \A d \in Conn \ {e.conn} : e.after.out[d] = e.before.out[d]
            /\ e.after.clients = e.before.clients
            /\ e.after.subs = e.before.subs
            /\ e.after.retainedMsgs = e.before.retainedMsgs
            /\ e.after.tasks = e.before.tasks
            /\ e.after.connState = e.before.connState
    /\ \A c \in Conn :
           Len(SelectSeq(out[c], IsPingresp)) = Cardinality(PingsFrom(c))

\* A session with a subscription sent PINGREQ while a retained message was
\* stored, and its socket ends with the PINGRESP.
C21_Witness ==
    \E p \in 1..Len(pingLog) :
        LET e == pingLog[p] IN
        /\ e.id # NoClient
        /\ DOMAIN e.before.subs[e.conn, e.id] # {}
        /\ DOMAIN e.before.retainedMsgs # {}
        /\ Len(SelectSeq(out[e.conn], IsPingresp)) = 1

-----------------------------------------------------------------------------
(* Failures *)

\* C22: nothing a connection sends ends the broker process (and with it
\* every other session and the accept loop): neither a packet before
\* CONNECT nor a retain=1 PUBLISH to a Server built by New.
C22_BrokerSurvives == ~crashed

\* C23: a socket that sent a CONNECT, PUBLISH, SUBSCRIBE or UNSUBSCRIBE whose
\* body failed to decode is closed (and so gets no frame for that packet or
\* after it).
C23_MalformedCloses ==
    \A c \in malformed : connState[c] = "closed"

\* A topic that holds '+' or '#'.
HasWildcard(topic) == HasChar(topic, "+") \/ HasChar(topic, "#")

\* C24: the socket of a PUBLISH whose topic holds a wildcard is closed, the
\* PUBLISH starts no delivery, and no key of the retained store holds a
\* wildcard.
C24_WildcardPublishRefused ==
    /\ \A i \in 1..Len(pubLog) :
           HasWildcard(pubLog[i].wire.Topic) =>
               /\ connState[pubLog[i].conn] = "closed"
               /\ \A id \in ClientIDs : Deliveries(i, id, 0) = 0
    /\ \A t \in DOMAIN retainedMsgs : ~HasWildcard(t)

-----------------------------------------------------------------------------
(* Start and Stop *)

\* C25: once a call of Stop has returned, every connection accepted before
\* it returned is closed, also one that sent no CONNECT yet and one whose
\* registry entry a CONNECT with the same ID replaced.  (That the listener
\* is closed then is part of C26.)
C25_StopClosesEverything ==
    stopRet => \A c \in Conn \ late : connState[c] # "open"

\* C26: once a call of Stop has returned, no connection is accepted any more
\* and Start is not left in its accept loop on an open listener, also when
\* Stop ran between Start's `s.running = true` and its net.Listen.
C26_StoppedForGood ==
    /\ late = {}
    /\ stopRet => ~(startPC = "accept" /\ listener = "open")

-----------------------------------------------------------------------------
(* Concurrent writers of one socket *)

\* Frames f and g are the two parts of one written frame.
SameFrame(f, g) ==
    /\ f.type = g.type /\ f.idx = g.idx /\ f.via = g.via /\ f.to = g.to
    /\ f.PacketID = g.PacketID /\ f.Topic = g.Topic /\ f.Payload = g.Payload

-----------------------------------------------------------------------------
(* C28 *)

\* The deliverMessage goroutines whose Write does not return.
StuckTasks == {t \in tasks : Stuck(t.conn)}

\* C28: while a subscriber's socket write blocks, every other delivery of the
\* same publish whose socket is open and takes bytes can still run, and the
\* publisher's handler and the handler of every other session whose socket
\* takes bytes can still read and handle its next packet (here a PINGREQ).
C28_BlockedWriteIsolated ==
    (~crashed /\ StuckTasks # {}) =>
        /\ \A t \in tasks \ StuckTasks : ENABLED Deliver(t)
        /\ \A c \in Conn :
               (connState[c] = "open" /\ c \notin blocked /\ nPackets < MaxPackets)
                   => ENABLED RecvPingreq(c)

\* A publish from socket 1 matched both sessions; the delivery to y's socket 2
\* is stuck in its Write, the delivery to x is still to run and the publisher
\* is in its read loop.
C28_Witness ==
    /\ ~crashed
    /\ nPackets < MaxPackets
    /\ connState = [c \in Conn |-> "open"]
    /\ blocked = {2}
    /\ \E t \in StuckTasks, u \in tasks \ StuckTasks :
           /\ t.via = 0 /\ u.via = 0
           /\ t.pub.idx = u.pub.idx
           /\ pubLog[t.pub.idx].conn = 1
           /\ t.conn = 2 /\ u.conn = 1

-----------------------------------------------------------------------------
(* C29, C30 *)

\* The '/'-separated segments of a string, empty ones included.
RECURSIVE SegmentsFrom(_, _, _)
SegmentsFrom(topic, i, cur) ==
    IF i > Len(topic) THEN <<cur>>
    ELSE IF topic[i] = "/" THEN <<cur>> \o SegmentsFrom(topic, i + 1, <<>>)
    ELSE SegmentsFrom(topic, i + 1, Append(cur, topic[i]))

Segments(topic) == SegmentsFrom(topic, 1, <<>>)

\* The first k segments of the filter agree with the topic's, level by level.
Agree(fs, ts, k) ==
    /\ Len(ts) >= k
    /\ \A i \in 1..k : fs[i] = <<"+">> \/ fs[i] = ts[i]

\* C29: for a filter without '#', topicMatch holds exactly when filter and
\* topic have the same number of '/'-separated segments, empty ones counted,
\* and each filter segment is '+' or identical to the topic's segment.
C29_EmptySegmentIsLevel ==
    LET fs == Segments(match.subTopic)
        ts == Segments(match.pubTopic)
    IN  (match.done /\ \A i \in 1..Len(fs) : fs[i] # <<"#">>)
            => (match.result <=> (Len(fs) = Len(ts) /\ Agree(fs, ts, Len(fs))))

\* C30: for a filter whose last segment, and no other, is '#', topicMatch
\* holds exactly when the topic agrees with the preceding segments level by
\* level; any number of further levels may follow.
C30_HashMatchesRest ==
    LET fs == Segments(match.subTopic)
        ts == Segments(match.pubTopic)
        k == Len(fs) - 1
    IN  (match.done /\ fs[Len(fs)] = <<"#">> /\ \A i \in 1..k : fs[i] # <<"#">>)
            => (match.result <=> Agree(fs, ts, k))

-----------------------------------------------------------------------------
(* C31 *)

\* C31: a topic whose first character is '$' is not matched by a filter whose
\* first segment is '+' or '#', and the filter '#' matches every topic that
\* does not start with '$'.
C31_DollarTopicsHidden ==
    LET fs == Segments(match.subTopic)
        dollar == match.pubTopic[1] = "$"
    IN  match.done =>
            /\ (dollar /\ fs[1] \in {<<"+">>, <<"#">>}) => ~match.result
            /\ (~dollar /\ match.subTopic = <<"#">>) => match.result

-----------------------------------------------------------------------------
(* C32 *)

\* C32: the length bytes written for a remaining length are 1 to 4 bytes, and
\* ReadFixedHeader reads all of them and returns that remaining length.
C32_RemainingLenRoundTrip ==
    /\ (codec.kind = "len" /\ codec.pc # "encode") => Len(codec.bytes) \in 1..4
    /\ (codec.kind = "len" /\ codec.pc = "done") =>
           /\ codec.header.ok
           /\ codec.header.value = codec.remainingLen
           /\ codec.header.read = Len(codec.bytes)

\* The frame of a 100 KB payload: its length, written in three bytes, read back.
C32_Witness ==
    /\ codec.kind = "len" /\ codec.pc = "done"
    /\ codec.remainingLen = 102400 + 5
    /\ Len(codec.bytes) = 3
    /\ codec.header.value = 102400 + 5

-----------------------------------------------------------------------------
(* C33 *)

\* C33: the bytes a PUBLISH packet's Encode returns decode to a packet equal
\* to it.
C33_PublishRoundTrip ==
    (codec.kind = "publish" /\ codec.pc = "done") =>
        /\ ~codec.encoded.err
        /\ codec.decoded.ok
        /\ codec.decoded.pkt = codec.pkt

-----------------------------------------------------------------------------
(* C34, C40 *)

\* C34: a dequeue for a client returns the messages enqueued for it since its
\* previous dequeue, in enqueue order, and leaves no message of the client in
\* the bucket.
C34_DequeueReturnsAllInOrder ==
    (queue.kind = "store" /\ queue.last # NoDequeue) =>
        /\ queue.last.ret = queue.last.pending
        /\ \A k \in DOMAIN queue.last.after : queue.owner[k] # queue.last.id

\* C40: a dequeue for a client removes only keys that were enqueued for that
\* client, and so returns only that client's messages.
C40_DequeueOnlyOwnMessages ==
    (queue.kind = "store" /\ queue.last # NoDequeue) =>
        \A k \in DOMAIN queue.last.before \ DOMAIN queue.last.after :
            queue.owner[k] = queue.last.id

-----------------------------------------------------------------------------
(* C35, C36 *)

\* One statement of thread t.
Runs(t) ==
    LockBegin(t) \/ LockEnter(t) \/ Unlock(t) \/ RLock(t) \/ RUnlock(t) \/ Visit(t)
        \/ Statement(t)

\* C35: no thread asks for s.mu or s.retainedMsgsMu while it holds a Client's
\* mutex, and as long as a handler or Stop has not finished, some thread can
\* take its next step.
C35_LockOrderNoDeadlock ==
    race.kind = "race" =>
        /\ ~race.inverted
        /\ (\E t \in race.threads : ~Finished(t)) => \E t \in race.threads : ENABLED Runs(t)

\* routeMessage holds s.mu and y's client.mu for reading while Stop waits for
\* s.mu and a handler of y waits for client.mu.
C35_Witness ==
    /\ race.kind = "race" /\ race.threads = Threads
    /\ "publish" \in race.lock["s.mu"].r
    /\ "publish" \in race.lock[ClientMu("y")].r
    /\ race.lock["s.mu"].w = "stop" /\ At("stop", "Locked")
    /\ race.lock[ClientMu("y")].w = "unsubscribe" /\ At("unsubscribe", "Locked")
    /\ At("subscribe", "Lock")

\* C36: once the handlers of the retain=1 PUBLISH and of the matching
\* SUBSCRIBE have both returned and the goroutines they started have run, the
\* message has been written to the subscriber's open socket at least once.
C36_RetainSubscribeRace ==
    (/\ race.kind = "race" /\ race.threads = {"publish", "subscribe"}
     /\ Finished("publish") /\ Finished("subscribe")
     /\ race.started = {} /\ race.open)
        => race.delivered # {}

\* The SUBSCRIBE scanned the retained store before the PUBLISH stored its
\* message: the only delivery is the live one.
C36_Witness ==
    /\ race.kind = "race" /\ race.threads = {"publish", "subscribe"}
    /\ Finished("publish") /\ Finished("subscribe")
    /\ race.started = {} /\ race.open
    /\ race.delivered = {"live"}

-----------------------------------------------------------------------------
(* C37 *)

\* C37: a PUBLISH frame written by live fan-out carries retain=0 and a
\* PUBLISH frame whose delivery a SUBSCRIBE started carries retain=1.
C37_RetainFlagTellsRetained ==
    \A c \in Conn : \A i \in 1..Len(out[c]) :
        out[c][i].type = "PUBLISH" => (out[c][i].Retain <=> out[c][i].via # 0)

-----------------------------------------------------------------------------
(* C38 *)

\* C38: the remaining length of the SUBACK for a SUBSCRIBE with n filters
\* decodes to 2 + n, and the packet ID and exactly n return codes follow it.
C38_SubackLength ==
    (codec.kind = "suback" /\ codec.pc = "done") =>
        LET n == Len(codec.wire.Topics)
            body == SubSeq(codec.bytes, codec.header.read + 1, Len(codec.bytes))
        IN  /\ codec.header.ok
            /\ codec.header.value = 2 + n
            /\ Len(body) = 2 + n
            /\ body[1] * 256 + body[2] = codec.wire.PacketID
            /\ SubSeq(body, 3, Len(body)) = ReturnCodes(codec.wire.Topics)

-----------------------------------------------------------------------------
(* C39 *)

\* C39: a Start that returned its bind error leaves running false, so that a
\* later Start goes on to bind; a Start called while the server is running
\* returns "server is already running" and leaves the listener as it is.
C39_FailedStartNotRunning ==
    /\ startPC = "failed" => ~running
    /\ \A i \in 1..Len(startLog) :
           /\ (startLog[i].at = "failed") => startLog[i].err = "none"
           /\ (startLog[i].at = "accept") =>
                  (startLog[i].err = "already running" /\ startLog[i].listener = "open")

=============================================================================
